---- MODULE Spec2Model ----
(***************************************************************************)
(* Outbound path of the broker-agnostic orchestration layer:               *)
(*   UniversalMessageQueue        (universal/message.queue.ts)             *)
(*   UniversalSubscriptionManager (universal/subscription.manager.ts)      *)
(*   UniversalMessageManager      (universal/message.manager.ts)           *)
(* A step of the model is the code that runs between two awaits: user      *)
(* calls, timer callbacks and adapter completions interleave at awaits.    *)
(***************************************************************************)
EXTENDS Integers, Sequences, FiniteSets, TLC

\* ------------------------------------------------------------------ bounds
\* Topics a caller publishes or subscribes to.
Topics == {"t1", "t2"}
\* IMessage.priority; "none" stands for a message without a priority.
Priorities == {"none", "low", "normal", "high", "critical"}
\* options.priority values the callers of manager.publish pass (one below, one
\* equal to and one above the default).
PublishPriorities == {"none", "low", "critical"}
\* Message objects created over a run.
MaxMsgs == 3
\* Subscription ids created by subscribe over a run.
MaxSubs == 2
\* Timer callbacks that can be suspended at an await at the same time.
MaxTicks == 2
\* connect() calls whose adapter.connect() is pending at the same time.
MaxConnects == 1
\* Metrics polling intervals created over a run (one per resolved connect).
MaxMetricsTimers == 2
\* Queue capacity, message.queue.ts line 41 sets 10000; scaled down so that
\* a full queue is reached within MaxMsgs publishes.
maxQueueSize == 2
\* Latency window, performance.monitor.ts line 35 sets 1000; scaled down so
\* that a full window is reached within a few samples.
maxSamples == 2

\* The adapter defines getMetrics (RedisAdapter, KafkaAdapter, NATSAdapter).
HasGetMetrics == TRUE

\* An option the caller did not pass.
Absent == "absent"
\* The options argument of publish and publishImmediate (Partial<IMessage>):
\* the fields the queue and the registry read.
Options == [priority : PublishPriorities, type : Topics \cup {Absent}]
\* Options that carry a priority at most.
PlainOptions == {o \in Options : o.type = Absent}
\* The adapter.publish calls publishImmediate can have in flight.
ImmediateCalls == [topic : Topics,
                   message : [id : 1..(MaxMsgs + 1), type : Topics, priority : PublishPriorities]]

MsgIds == 1..MaxMsgs

\* Longest string and longest pattern of the enumerated wildcard calls.
MaxLen == 3
\* Filter keys, and characters of enumerated strings and patterns ('.' is a
\* character the regular expression reads as "any character").
Keys == {"region", "count"}
StringChars == {"u", "-"}
PatternChars == StringChars \cup {"*", "."}
SeqsUpTo(chars, n) == UNION {[1..k -> chars] : k \in 0..n}
ShortStrings == SeqsUpTo(StringChars, MaxLen)
Patterns == {p \in SeqsUpTo(PatternChars, MaxLen) : \E i \in 1..Len(p) : p[i] = "*"}
UsEast == <<"u", "s", "-", "e", "a", "s", "t">>
EuWest == <<"e", "u", "-", "w", "e", "s", "t">>
UsStar == <<"u", "s", "-", "*">>

\* Handler objects created over a run.
MaxHandlers == 4
\* IMessageHandler.priority: absent, or one of these numbers.
HandlerPriorities == {-1, 0, 10}
\* A handler object: its identity, and its priority when it has one.
HandlerObjects ==
    {h \in [id : 1..MaxHandlers, hasPriority : BOOLEAN, priority : HandlerPriorities] :
        ~h.hasPriority => h.priority = 0}

\* subscribe calls made on the registry class over a run.
MaxRegistrySubscribes == 3

\* `filters` of a call made without filters.
NoFilters == [nofilters |-> TRUE]
\* No call of matchesFilters has been made.
NoCall == [made |-> FALSE]

SubIds == 1..MaxSubs
TickIds == 1..MaxTicks

\* The registry class before any call: per (topic, id) the subscribe calls,
\* those of them that found the id registered, and the unsubscribe calls that
\* returned true; and the last call with what it returned.
NoRegistryCalls ==
    [subscribes |-> [x \in Topics \X SubIds |-> 0],
     overwrites |-> [x \in Topics \X SubIds |-> 0],
     trues |-> [x \in Topics \X SubIds |-> 0],
     last |-> [op |-> "none", topic |-> "", id |-> 0, result |-> FALSE]]

\* Middleware functions added, and handler objects registered, ahead of a
\* dispatch.
MaxMiddleware == 3
MaxPipelineHandlers == 2
\* What a middleware function does with `next`: await it once and return,
\* return without calling it, throw ahead of calling it, await it twice.
MiddlewareKinds == {"pass", "stop", "throw", "twice"}
\* Handler objects of a dispatch: LoggingHandler has priority 1,
\* ValidationHandler priority 10; canHandle answers true for every type
\* (LoggingHandler) or for the types of a schema Map (ValidationHandler).
PipelinePriorities == {1, 10}
PipelineHandlers ==
    [id : 1..MaxPipelineHandlers, hasPriority : {TRUE}, priority : PipelinePriorities,
     accepts : {{"t2"}, Topics}]

\* CircuitBreakerConfig: failureThreshold and recoveryTimeout (in clock
\* steps), scaled down from the values of the examples; monitoringPeriod
\* below and above recoveryTimeout.
failureThreshold == 2
recoveryTimeout == 2
MonitoringPeriods == {1, 3}
\* The clock's last value, and the execute calls made on a breaker.
MaxTime == 4
MaxCalls == 4

\* RetryHandler(maxRetries, retryDelay): the defaults are 3 and 1000, scaled
\* down; the ids of the messages it is given and the calls of handle made.
maxRetries == 2
retryDelay == 1
RetryIds == {"m1", "m2"}
MaxRetryCalls == 4

\* Latencies recorded on the monitor, and the operations and brokers they
\* are recorded for ("" is a call without a broker).
Samples == {0, 1, 2}
MonitorOperations == {"publish"}
MonitorBrokers == {"", "redis"}
\* Longest window the statistics are computed over on their own.
MaxWindow == 21
\* Windows of every length up to MaxWindow: value offset + i * step modulo
\* MaxWindow at place i (constant, rising and wrapping around), and the
\* window 10, 20, 30, 40, 50.
Ramp(n, step, offset) == [i \in 1..n |-> (offset + i * step) % MaxWindow]
ExampleWindow == <<10, 20, 30, 40, 50>>
Windows ==
    {Ramp(n, step, offset) : n \in 1..MaxWindow, step \in {0, 1, 5}, offset \in {0}}
        \cup {ExampleWindow}

\* setupCommonMiddleware: messages allowed in a window (Integration.helper.ts
\* line 46 sets 100), ids remembered before the oldest are forgotten (line
\* 74 sets 10000) and ids forgotten at a time (line 75 sets 1000), scaled.
rateLimit == 2
maxRemembered == 2
forgotten == 1
\* message.id of the messages the broker delivers.
InboundIds == {"m1", "m2", "m3"}

\* Invocations of wrapped callbacks over a run.
MaxDeliveries == 2
DeliveryIds == 1..MaxDeliveries
\* No manager.unsubscribe call has been made.
NoUnsubscribe == [topic |-> "", id |-> 0, result |-> FALSE]
\* An invocation record that has not been used.
NoDelivery == [pc |-> "none", sub |-> 0,
               message |-> [type |-> "", payload |-> <<>>, metadata |-> <<>>],
               handlers |-> {}, log |-> <<>>]

\* No call of handle has been made.
NoDispatch == [pc |-> "none", type |-> "", index |-> 0, stack |-> <<>>, log |-> <<>>,
               pending |-> {}, runs |-> 0]

\* No CircuitBreaker has been constructed.
NoBreaker == [state |-> "none", failures |-> 0, openedAt |-> 0, now |-> 0,
              monitoringPeriod |-> 0, inFlight |-> FALSE, history |-> <<>>]
\* No call of RetryHandler.handle has been made.
NoRetry == [call |-> 0, id |-> 0, attempted |-> FALSE, result |-> "none"]

\* `message` of processQueues when dequeue returned null.
NoMsg == [id |-> 0, type |-> "", priority |-> "none"]

VARIABLES
    queues,             \* UniversalMessageQueue.queues: topic -> IMessage[]
    dlq,                \* UniversalMessageQueue.dlq:    topic -> IMessage[]
    subscriptions,      \* UniversalSubscriptionManager.subscriptions (ids per topic)
    topicSubscribers,   \* UniversalSubscriptionManager.topicSubscribers
    topicOrder,         \* key order of the subscriptions Map
    nextSubId,          \* next fresh subscription id
    nextMsgId,          \* next fresh message object
    isProcessing,       \* UniversalMessageManager.isProcessing
    processingInterval, \* UniversalMessageManager.processingInterval is set
    drainTimers,        \* live setInterval drain timers
    metricsTimers,      \* live setInterval metrics polling timers
    connectPending,     \* connect() calls awaiting adapter.connect()
    lastLifecycle,      \* the last of connect() and disconnect() to be called,
                        \* recorded by the lifecycle specification only
    ticks,              \* timer callbacks: position and locals of each
    delivered,          \* messages whose adapter.publish resolved
    raised,             \* errors that left a manager call or a callback
    metrics,            \* UniversalPerformanceMonitor.metrics: key -> samples
    immediate,          \* adapter.publish calls of publishImmediate in flight
    filterCall,         \* a call of matchesFilters: its arguments and its result
    handlers,           \* UniversalHandlerRegistry.handlers: type -> IMessageHandler[]
    globalHandlers,     \* UniversalHandlerRegistry.globalHandlers
    nextHandlerId,      \* next fresh handler object
    registryCalls,      \* calls made on the registry: counts and the last return
    wrappers,           \* ISubscription objects built by manager.subscribe, by id
    subscribing,        \* ids whose adapter.subscribe call is pending
    adapterSubscriptions, \* RedisAdapter.subscriptions: handle -> its subscription
    listeners,          \* 'message' listeners on the adapter's subscriber connection
    nextHandle,         \* next fresh adapter handle
    adapterUnsubscribes, \* adapter.unsubscribe calls made by manager.unsubscribe
    lastUnsubscribe,    \* the last manager.unsubscribe call and what it returned
    deliveries,         \* invocations of wrapped callbacks: position and log
    nextDelivery,       \* next free invocation record
    middleware,         \* UniversalHandlerRegistry.middleware
    dispatch,           \* a call of UniversalHandlerRegistry.handle: position and log
    breaker,            \* a CircuitBreaker: state, counters, clock and calls
    retryCount,         \* RetryHandler.retryCount: message id -> number
    retryTimers,        \* timers RetryHandler.handle has set: message id and delay
    retryPending,       \* calls of RetryHandler.handle awaiting processMessage
    lastRetry,          \* the last call of RetryHandler.handle and how it ended
    statsCall,          \* latency statistics computed over a window: input and result
    messageIds,         \* setupCommonMiddleware: ids the third middleware remembers
    rateLimiter         \* setupCommonMiddleware: the count kept for 'anonymous'

queueVars == <<queues, dlq>>
registryVars == <<subscriptions, topicSubscribers, topicOrder, nextSubId>>
lifeVars == <<processingInterval, drainTimers, metricsTimers, connectPending, lastLifecycle>>
vars == <<queues, dlq, subscriptions, topicSubscribers, topicOrder, nextSubId,
          nextMsgId, isProcessing, processingInterval, drainTimers, metricsTimers,
          connectPending, lastLifecycle, ticks, delivered, raised, metrics, immediate,
          filterCall, handlers, globalHandlers, nextHandlerId, registryCalls,
          wrappers, subscribing, adapterSubscriptions, listeners, nextHandle,
          adapterUnsubscribes, lastUnsubscribe, deliveries, nextDelivery,
          middleware, dispatch, breaker, retryCount, retryTimers, retryPending,
          lastRetry, statsCall, messageIds, rateLimiter>>
\* The state publishImmediate never touches and, with the calls of
\* publishImmediate, the state publish and the drain loop never touch.
filterVars == <<filterCall>>
handlerVars == <<handlers, globalHandlers, nextHandlerId>>
inboundVars == <<wrappers, subscribing, adapterSubscriptions, listeners, nextHandle,
                 adapterUnsubscribes, lastUnsubscribe, deliveries, nextDelivery>>
\* The middleware list and the dispatch through it.
pipelineVars == <<middleware, dispatch>>
\* The state of the classes the manager's own methods do not touch.
\* The RetryHandler, and with it the circuit breaker.
retryVars == <<retryCount, retryTimers, retryPending, lastRetry>>
helperVars == <<messageIds, rateLimiter>>
toolVars == <<breaker, retryVars, statsCall, helperVars>>
utilVars == <<pipelineVars, toolVars>>
restVars == <<filterVars, handlerVars, registryCalls, inboundVars, utilVars>>
\* The state of the publish paths, the registry and the drain loop.
outboundVars == <<queueVars, registryVars, lifeVars, nextMsgId, isProcessing, ticks,
                  delivered, raised, metrics, immediate>>
extVars == <<immediate, restVars>>

\* ------------------------------------------------------------ message queue
getPriorityValue(priority) ==
    CASE priority = "critical" -> 4
      [] priority = "high" -> 3
      [] priority = "normal" -> 2
      [] priority = "low" -> 1
      [] OTHER -> 2

\* insertIndex that always answers queue.length (a plain push).
insertIndex_tail(queue, priority) == Len(queue) + 1

\* insertIndex with `<=` in place of `<` in the loop's comparison.
insertIndex_le(queue, priority) ==
    LET lower == {i \in 1..Len(queue) : getPriorityValue(queue[i].priority) <= priority}
    IN IF lower = {} THEN Len(queue) + 1
       ELSE CHOOSE i \in lower : \A j \in lower : i <= j

\* The for loop of enqueue: the first index whose priority is strictly lower,
\* queue.length when there is none (1-based here).
insertIndex(queue, priority) ==
    LET lower == {i \in 1..Len(queue) : getPriorityValue(queue[i].priority) < priority}
    IN IF lower = {} THEN Len(queue) + 1
       ELSE CHOOSE i \in lower : \A j \in lower : i <= j

\* queue.splice(insertIndex, 0, message)
splice(queue, index, message) ==
    SubSeq(queue, 1, index - 1) \o <<message>> \o SubSeq(queue, index, Len(queue))

enqueueToDLQ(topic, message) ==
    dlq' = [dlq EXCEPT ![topic] = Append(@, message)]

\* enqueue with `>` in place of `>=` in the capacity test.
enqueue_offByOne(topic, message) ==
    IF Len(queues[topic]) > maxQueueSize
    THEN /\ enqueueToDLQ(topic, message)
         /\ UNCHANGED queues
    ELSE /\ queues' = [queues EXCEPT ![topic] =
                splice(@, insertIndex(@, getPriorityValue(message.priority)), message)]
         /\ UNCHANGED dlq

enqueue(topic, message) ==
    IF Len(queues[topic]) >= maxQueueSize
    THEN /\ enqueueToDLQ(topic, message)
         /\ UNCHANGED queues
    ELSE /\ queues' = [queues EXCEPT ![topic] =
                splice(@, insertIndex(@, getPriorityValue(message.priority)), message)]
         /\ UNCHANGED dlq

\* What dequeue returns: queue?.shift() || null
dequeued(topic) ==
    IF queues[topic] = <<>> THEN NoMsg ELSE Head(queues[topic])

\* dequeue that reads the head without removing it (queue[0] for shift()).
dequeue_peek(topic) ==
    queues' = queues

dequeue(topic) ==
    queues' = [queues EXCEPT ![topic] = IF @ = <<>> THEN <<>> ELSE Tail(@)]

\* ------------------------------------------------------ subscription registry
getAllTopics == topicOrder

RemoveTopic(order, topic) == SelectSeq(order, LAMBDA t : t # topic)

\* this.subscriptions.has(topic)
hasTopic(topic) == \E i \in 1..Len(topicOrder) : topicOrder[i] = topic

\* subscribe(subscription): the topic's entries are created when the topic is
\* new; set(id, subscription) replaces an entry of the same id.
registrySubscribe(topic, id) ==
    /\ subscriptions' = [subscriptions EXCEPT ![topic] = @ \cup {id}]
    /\ topicSubscribers' = [topicSubscribers EXCEPT ![topic] = @ \cup {id}]
    /\ topicOrder' = IF hasTopic(topic) THEN topicOrder ELSE Append(topicOrder, topic)

\* unsubscribe that answers true whenever the topic has an entry.
unsubscribeResult_hasTopic(topic, id) == hasTopic(topic)

\* What unsubscribe returns: false without the topic, else topicSubs.delete(id).
unsubscribeResult(topic, id) == hasTopic(topic) /\ id \in subscriptions[topic]

\* unsubscribe that leaves the topic's entries in place when they are empty.
registryUnsubscribe_noPrune(topic, id) ==
    IF ~hasTopic(topic)
    THEN UNCHANGED <<subscriptions, topicSubscribers, topicOrder>>
    ELSE /\ subscriptions' = [subscriptions EXCEPT ![topic] = @ \ {id}]
         /\ topicSubscribers' = [topicSubscribers EXCEPT ![topic] = @ \ {id}]
         /\ topicOrder' = topicOrder

registryUnsubscribe(topic, id) ==
    IF ~hasTopic(topic)
    THEN UNCHANGED <<subscriptions, topicSubscribers, topicOrder>>
    ELSE /\ subscriptions' = [subscriptions EXCEPT ![topic] = @ \ {id}]
         /\ topicSubscribers' = [topicSubscribers EXCEPT ![topic] = @ \ {id}]
         /\ topicOrder' = IF subscriptions[topic] \ {id} = {}
                          THEN RemoveTopic(topicOrder, topic)
                          ELSE topicOrder

\* ------------------------------------------------------------ message filters
\* A JavaScript primitive: its type and what String() makes of it, as a
\* sequence of characters.  Two primitives are === when both agree.
JsString(chars) == [kind |-> "string", str |-> chars]
JsNumber(digit) == [kind |-> "number", str |-> <<digit>>]
JsFalse == [kind |-> "boolean", str |-> <<"f", "a", "l", "s", "e">>]
JsUndefined == [kind |-> "undefined",
                str |-> <<"u", "n", "d", "e", "f", "i", "n", "e", "d">>]

\* The values `||` skips: undefined, 0, false and ''.
falsy(v) ==
    \/ v.kind = "undefined"
    \/ v = JsNumber("0")
    \/ v = JsFalse
    \/ v = JsString(<<>>)

\* a || b
or(a, b) == IF falsy(a) THEN b ELSE a

\* object?.[key] for an object given as a function from its own keys.
get(object, key) == IF key \in DOMAIN object THEN object[key] ELSE JsUndefined

\* value.includes('*')
includesStar(chars) == \E i \in 1..Len(chars) : chars[i] = "*"

\* value.replace(/\*/g, '.*'): the source of the regular expression.
RECURSIVE replaceStar(_)
replaceStar(chars) ==
    IF chars = <<>> THEN <<>>
    ELSE (IF Head(chars) = "*" THEN <<".", "*">> ELSE <<Head(chars)>>)
            \o replaceStar(Tail(chars))

\* One atom of the expression against one character: '.' takes any.
atomTakes(atom, char) == atom = "." \/ atom = char

\* The expression source matches a prefix of chars.  An atom followed by '*'
\* takes any number of characters it accepts.
RECURSIVE matchHere(_, _)
matchHere(source, chars) ==
    IF source = <<>> THEN TRUE
    ELSE IF Len(source) >= 2 /\ source[2] = "*"
    THEN \E k \in 0..Len(chars) :
            /\ \A i \in 1..k : atomTakes(source[1], chars[i])
            /\ matchHere(SubSeq(source, 3, Len(source)), SubSeq(chars, k + 1, Len(chars)))
    ELSE /\ chars # <<>>
         /\ atomTakes(source[1], chars[1])
         /\ matchHere(Tail(source), Tail(chars))

\* new RegExp(source).test(chars): no anchors, a match may start anywhere.
regexTest(source, chars) ==
    \E start \in 0..Len(chars) : matchHere(source, SubSeq(chars, start + 1, Len(chars)))

\* matchesFilters with the pattern compared as a plain string.
matchesFilters_noWildcard(message, filters) ==
    IF filters = NoFilters THEN TRUE
    ELSE \A key \in DOMAIN filters :
            or(get(message.payload, key), get(message.metadata, key)) = filters[key]

matchesFilters(message, filters) ==
    IF filters = NoFilters THEN TRUE
    ELSE \A key \in DOMAIN filters :
            LET value == filters[key]
                msgValue == or(get(message.payload, key), get(message.metadata, key))
            IN IF value.kind = "string" /\ includesStar(value.str)
               THEN regexTest(replaceStar(value.str), msgValue.str)
               ELSE msgValue = value

\* Values of payload fields, of metadata fields and of filters.
PayloadValues == {JsNumber("0"), JsNumber("5"), JsFalse, JsString(<<>>),
                  JsString(UsEast), JsString(EuWest)}
MetadataValues == {JsNumber("5"), JsString(UsEast)}
FilterValues == PayloadValues \cup {JsString(UsStar)}
\* Objects with some of the keys (an absent payload or metadata reads like
\* the object without keys).
ObjectsOver(values) == UNION {[K -> values] : K \in SUBSET Keys}
FilterMessages == [payload : ObjectsOver(PayloadValues), metadata : ObjectsOver(MetadataValues)]
FilterSets == ObjectsOver(FilterValues) \cup {NoFilters}

\* ------------------------------------------------------------ handler registry
\* handler.priority || 0
priorityOr0(handler) == IF handler.hasPriority THEN handler.priority ELSE 0

\* Where Array.prototype.sort puts the last element of a list whose other
\* elements are sorted, under (a, b) => (b.priority || 0) - (a.priority || 0).
\* That place taken ahead of the elements of equal priority (a sort that
\* does not keep equal elements in their order).
insertSorted_unstable(sorted, handler) ==
    LET keep == {i \in 0..Len(sorted) :
                    \A j \in 1..i : priorityOr0(sorted[j]) > priorityOr0(handler)}
        at == CHOOSE i \in keep : \A j \in keep : j <= i
    IN SubSeq(sorted, 1, at) \o <<handler>> \o SubSeq(sorted, at + 1, Len(sorted))

\* Stable insertion: the element goes behind every element the comparator
\* does not order after it, that is behind every priority >= its own.
insertSorted(sorted, handler) ==
    LET keep == {i \in 0..Len(sorted) :
                    \A j \in 1..i : priorityOr0(sorted[j]) >= priorityOr0(handler)}
        at == CHOOSE i \in keep : \A j \in keep : j <= i
    IN SubSeq(sorted, 1, at) \o <<handler>> \o SubSeq(sorted, at + 1, Len(sorted))

\* list.sort((a, b) => (b.priority || 0) - (a.priority || 0)): a stable sort,
\* descending by priority || 0.
RECURSIVE sortByPriority(_)
sortByPriority(list) ==
    IF list = <<>> THEN <<>>
    ELSE insertSorted(sortByPriority(SubSeq(list, 1, Len(list) - 1)), list[Len(list)])

\* handlers.indexOf(handler), 0 for -1.
indexOf(list, handler) ==
    LET found == {i \in 1..Len(list) : list[i] = handler}
    IN IF found = {} THEN 0 ELSE CHOOSE i \in found : \A j \in found : i <= j

\* register(messageType, handler): push and sort.
register(messageType, handler) ==
    /\ handlers' = [handlers EXCEPT ![messageType] = sortByPriority(Append(@, handler))]
    /\ UNCHANGED globalHandlers

\* registerGlobal(handler): push and sort.
registerGlobal(handler) ==
    /\ globalHandlers' = sortByPriority(Append(globalHandlers, handler))
    /\ UNCHANGED handlers

\* unregister(messageType, handler): splice the first occurrence out.
unregister(messageType, handler) ==
    LET list == handlers[messageType]
        index == indexOf(list, handler)
    IN /\ handlers' = IF index = 0 THEN handlers
                      ELSE [handlers EXCEPT ![messageType] =
                               SubSeq(list, 1, index - 1) \o SubSeq(list, index + 1, Len(list))]
       /\ UNCHANGED globalHandlers

\* -------------------------------------------------------- performance monitor
\* The key of recordLatency: broker ? `${broker}.${operation}` : operation
metricKey(operation, broker) ==
    IF broker # "" THEN broker \o "." \o operation ELSE operation

\* pushSample evicting the latest earlier sample instead of the oldest.
pushSample_evictLatest(samples, latency) ==
    IF Len(samples) + 1 > maxSamples
    THEN Append(SubSeq(samples, 1, Len(samples) - 1), latency)
    ELSE Append(samples, latency)

\* samples.push(latency) and the shift of the oldest past maxSamples.
pushSample(samples, latency) ==
    IF Len(samples) + 1 > maxSamples THEN Tail(Append(samples, latency))
    ELSE Append(samples, latency)

recordLatency(operation, latency, broker) ==
    LET key == metricKey(operation, broker) IN
    metrics' = IF key \in DOMAIN metrics
               THEN [metrics EXCEPT ![key] = pushSample(@, latency)]
               ELSE metrics @@ (key :> <<latency>>)

\* [...arr].sort((a, b) => a - b): ascending, by insertion.
RECURSIVE sortAscending(_)
sortAscending(arr) ==
    IF arr = <<>> THEN <<>>
    ELSE LET rest == sortAscending(SubSeq(arr, 1, Len(arr) - 1))
             x == arr[Len(arr)]
             keep == {i \in 0..Len(rest) : \A j \in 1..i : rest[j] <= x}
             at == CHOOSE i \in keep : \A j \in keep : j <= i
         IN SubSeq(rest, 1, at) \o <<x>> \o SubSeq(rest, at + 1, Len(rest))

\* Math.ceil(a / b) for a >= 0, b > 0
ceilDiv(a, b) == (a + b - 1) \div b

\* getPercentile with Math.floor in place of Math.ceil.
getPercentile_floor(arr, percentile) ==
    LET sorted == sortAscending(arr)
        index == ((Len(sorted) * percentile) \div 100) - 1
    IN IF index \in 0..(Len(sorted) - 1) THEN sorted[index + 1] ELSE 0

\* getPercentile(arr, percentile): sorted[index] || 0, index counted from 0;
\* a place outside the array and the value 0 both give 0.
getPercentile(arr, percentile) ==
    LET sorted == sortAscending(arr)
        index == ceilDiv(Len(sorted) * percentile, 100) - 1
    IN IF index \in 0..(Len(sorted) - 1) /\ sorted[index + 1] # 0
       THEN sorted[index + 1] ELSE 0

\* Math.min(...samples) and Math.max(...samples)
mathMin(samples) ==
    CHOOSE x \in {samples[i] : i \in 1..Len(samples)} :
        \A i \in 1..Len(samples) : x <= samples[i]
mathMax(samples) ==
    CHOOSE x \in {samples[i] : i \in 1..Len(samples)} :
        \A i \in 1..Len(samples) : x >= samples[i]

\* The entry getMetrics builds for a window (avg, a quotient, is left out).
latencyStats(samples) ==
    [min |-> mathMin(samples), max |-> mathMax(samples), count |-> Len(samples),
     p95 |-> getPercentile(samples, 95), p99 |-> getPercentile(samples, 99)]

\* getMetrics().latency: an entry for every window that is not empty.
getMetrics ==
    [key \in {k \in DOMAIN metrics : Len(metrics[k]) > 0} |-> latencyStats(metrics[key])]

\* adapter.getType() of the adapter the manager was built with.
getType == "redis"

\* Date.now() - startTime as the manager measures it; time is not part of
\* the state, every latency the manager measures is drawn from this set.
Elapsed == {0}

\* ------------------------------------------------------------------ manager
\* A timer callback: where it is suspended (pc), the locals of processQueues
\* (topics, the loop position idx, message msg) and what it has done so far:
\* the topics it called dequeue for (deq), called adapter.publish for (pub)
\* and saw adapter.publish reject for (rej).
IdleTick == [pc |-> "idle", topics |-> <<>>, idx |-> 0, msg |-> NoMsg,
             deq |-> <<>>, pub |-> <<>>, rej |-> <<>>]

Init ==
    /\ queues = [t \in Topics |-> <<>>]
    /\ dlq = [t \in Topics |-> <<>>]
    /\ subscriptions = [t \in Topics |-> {}]
    /\ topicSubscribers = [t \in Topics |-> {}]
    /\ topicOrder = <<>>
    /\ nextSubId = 1
    /\ nextMsgId = 1
    /\ isProcessing = FALSE
    /\ processingInterval = FALSE
    /\ drainTimers = 0
    /\ metricsTimers = 0
    /\ connectPending = 0
    /\ lastLifecycle = "none"
    /\ ticks = [k \in TickIds |-> IdleTick]
    /\ delivered = {}
    /\ raised = {}
    /\ metrics = <<>>
    /\ immediate = {}
    /\ filterCall = NoCall
    /\ handlers = [type \in Topics |-> <<>>]
    /\ globalHandlers = <<>>
    /\ nextHandlerId = 1
    /\ registryCalls = NoRegistryCalls
    /\ wrappers = <<>>
    /\ subscribing = {}
    /\ adapterSubscriptions = <<>>
    /\ listeners = {}
    /\ nextHandle = 1
    /\ adapterUnsubscribes = {}
    /\ lastUnsubscribe = NoUnsubscribe
    /\ deliveries = [d \in DeliveryIds |-> NoDelivery]
    /\ nextDelivery = 1
    /\ middleware = <<>>
    /\ dispatch = NoDispatch
    /\ breaker = NoBreaker
    /\ retryCount = <<>>
    /\ retryTimers = {}
    /\ retryPending = {}
    /\ lastRetry = NoRetry
    /\ statsCall = NoCall
    /\ messageIds = <<>>
    /\ rateLimiter = 0

\* publish that hands the message to the adapter itself, as publishImmediate
\* does, instead of enqueueing it.
publish_direct(topic, priority) ==
    /\ nextMsgId <= MaxMsgs
    /\ delivered' = delivered \cup {nextMsgId}
    /\ nextMsgId' = nextMsgId + 1
    /\ UNCHANGED <<queueVars, registryVars, lifeVars, isProcessing, ticks, raised, metrics, extVars>>

\* The message literal of publish and publishImmediate:
\*   { id, type: topic, payload, timestamp, ...options }
\* The spread comes last, so a type in options replaces type: topic.
buildMessage(topic, options) ==
    [id |-> nextMsgId,
     type |-> IF options.type = Absent THEN topic ELSE options.type,
     priority |-> options.priority]

\* publish(topic, payload, options): builds the message and enqueues it.
publishMessage(topic, options) ==
    /\ nextMsgId <= MaxMsgs
    /\ enqueue(topic, buildMessage(topic, options))
    /\ nextMsgId' = nextMsgId + 1
    /\ UNCHANGED <<registryVars, lifeVars, isProcessing, ticks, delivered, raised, metrics, extVars>>

\* publish called with options that carry a priority at most.
publish(topic, priority) ==
    publishMessage(topic, [priority |-> priority, type |-> Absent])

\* publishImmediate that records its latency under the drain loop's key.
immediateResolved_publishKey(call) ==
    /\ call \in immediate
    /\ immediate' = immediate \ {call}
    /\ delivered' = delivered \cup {call.message.id}
    /\ \E latency \in Elapsed : recordLatency("publish", latency, getType)
    /\ UNCHANGED <<queueVars, registryVars, lifeVars, nextMsgId, isProcessing, ticks, raised,
                   restVars>>

\* publishImmediate(topic, payload, options) up to its await: builds the
\* message and calls adapter.publish(topic, message).
publishImmediate(topic, options) ==
    /\ nextMsgId <= MaxMsgs
    /\ immediate' = immediate \cup {[topic |-> topic, message |-> buildMessage(topic, options)]}
    /\ nextMsgId' = nextMsgId + 1
    /\ UNCHANGED <<queueVars, registryVars, lifeVars, isProcessing, ticks, delivered, raised, metrics,
                   restVars>>

\* adapter.publish resolved: the latency is recorded under 'publish_immediate'
\* and publishImmediate returns.
immediateResolved(call) ==
    /\ call \in immediate
    /\ immediate' = immediate \ {call}
    /\ delivered' = delivered \cup {call.message.id}
    /\ \E latency \in Elapsed : recordLatency("publish_immediate", latency, getType)
    /\ UNCHANGED <<queueVars, registryVars, lifeVars, nextMsgId, isProcessing, ticks, raised,
                   restVars>>

\* adapter.publish rejected: nothing catches it, publishImmediate rejects
\* before it reaches recordLatency.
immediateRejected(call) ==
    /\ call \in immediate
    /\ immediate' = immediate \ {call}
    /\ raised' = raised \cup {"publishImmediate"}
    /\ UNCHANGED <<queueVars, registryVars, lifeVars, nextMsgId, isProcessing, ticks, delivered,
                   metrics, restVars>>

\* subscribe(topic, callback, options): the registry entry is made before
\* adapter.subscribe is awaited and stays whatever the adapter answers; the
\* adapter's own subscription table is not read by the outbound path.
subscribe(topic) ==
    /\ nextSubId <= MaxSubs
    /\ registrySubscribe(topic, nextSubId)
    /\ nextSubId' = nextSubId + 1
    /\ UNCHANGED <<queueVars, lifeVars, nextMsgId, isProcessing, ticks, delivered, raised, metrics, extVars>>

\* unsubscribe(topic, subscriptionId): the registry entry is removed before
\* adapter.unsubscribe is awaited.
unsubscribe(topic, id) ==
    /\ registryUnsubscribe(topic, id)
    /\ UNCHANGED <<queueVars, lifeVars, nextSubId, nextMsgId, isProcessing, ticks,
                   delivered, raised, metrics, extVars>>

startProcessing ==
    IF processingInterval
    THEN UNCHANGED <<processingInterval, drainTimers>>
    ELSE /\ processingInterval' = TRUE
         /\ drainTimers' = drainTimers + 1

stopProcessing ==
    IF processingInterval
    THEN /\ processingInterval' = FALSE
         /\ drainTimers' = drainTimers - 1
    ELSE UNCHANGED <<processingInterval, drainTimers>>

\* connect(): up to the await of adapter.connect().
connectBegins ==
    /\ connectPending < MaxConnects
    /\ metricsTimers + connectPending < MaxMetricsTimers
    /\ connectPending' = connectPending + 1
    /\ UNCHANGED <<queueVars, registryVars, nextMsgId, isProcessing, processingInterval,
                   drainTimers, metricsTimers, ticks, delivered, raised, metrics, extVars>>

connect == connectBegins /\ UNCHANGED lastLifecycle

\* adapter.connect() resolved: startProcessing and the metrics interval.
connectResolved ==
    /\ connectPending > 0
    /\ connectPending' = connectPending - 1
    /\ startProcessing
    /\ metricsTimers' = IF HasGetMetrics THEN metricsTimers + 1 ELSE metricsTimers
    /\ UNCHANGED <<queueVars, registryVars, nextMsgId, isProcessing, lastLifecycle, ticks,
                   delivered, raised, metrics, extVars>>

\* adapter.connect() rejected: connect() ends there.
connectRejected ==
    /\ connectPending > 0
    /\ connectPending' = connectPending - 1
    /\ UNCHANGED <<queueVars, registryVars, nextMsgId, isProcessing, processingInterval,
                   drainTimers, metricsTimers, lastLifecycle, ticks, delivered, raised, metrics, extVars>>

\* disconnect(): stopProcessing runs before the await of adapter.disconnect().
disconnectBegins ==
    /\ stopProcessing
    /\ UNCHANGED <<queueVars, registryVars, nextMsgId, isProcessing, metricsTimers,
                   connectPending, ticks, delivered, raised, metrics, extVars>>

disconnect == disconnectBegins /\ UNCHANGED lastLifecycle

\* ---------------------------------------------------------------- drain loop
\* Head of `for (const topic of topics)` for the tick record tk, whose idx is
\* the iteration to begin: dequeue is called (its body runs at once) and the
\* tick suspends at the await; past the last topic processQueues returns.
loopHead(k, tk) ==
    IF tk.idx > Len(tk.topics)
    THEN /\ ticks' = [ticks EXCEPT ![k] = [tk EXCEPT !.pc = "awaitProcessQueues",
                                                   !.msg = NoMsg]]
         /\ UNCHANGED queues
    ELSE LET topic == tk.topics[tk.idx] IN
         /\ dequeue(topic)
         /\ ticks' = [ticks EXCEPT ![k] = [tk EXCEPT !.pc = "awaitDequeue",
                                                   !.msg = dequeued(topic),
                                                   !.deq = Append(@, topic)]]

\* The lowest timer-callback slot that is free.
freeTick == CHOOSE k \in TickIds :
                /\ ticks[k].pc = "idle"
                /\ \A j \in TickIds : ticks[j].pc = "idle" => k <= j

\* The timer callback without `if (this.isProcessing) return`.
tick_noGuard ==
    /\ drainTimers > 0
    /\ \E k \in TickIds : ticks[k].pc = "idle"
    /\ isProcessing' = TRUE
    /\ loopHead(freeTick, [IdleTick EXCEPT !.topics = getAllTopics, !.idx = 1])
    /\ UNCHANGED <<dlq, registryVars, lifeVars, nextMsgId, delivered, raised, metrics, extVars>>

\* The setInterval callback of startProcessing.
tick ==
    /\ drainTimers > 0
    /\ \E k \in TickIds : ticks[k].pc = "idle"
    /\ IF isProcessing
       THEN UNCHANGED vars
       ELSE /\ isProcessing' = TRUE
            /\ loopHead(freeTick, [IdleTick EXCEPT !.topics = getAllTopics, !.idx = 1])
            /\ UNCHANGED <<dlq, registryVars, lifeVars, nextMsgId, delivered, raised, metrics, extVars>>

\* dequeue resolved: `if (message)` and the call of adapter.publish.
afterDequeue(k) ==
    /\ ticks[k].pc = "awaitDequeue"
    /\ IF ticks[k].msg # NoMsg
       THEN /\ ticks' = [ticks EXCEPT ![k].pc = "awaitPublish",
                                      ![k].pub = Append(@, ticks[k].topics[ticks[k].idx])]
            /\ UNCHANGED queues
       ELSE loopHead(k, [ticks[k] EXCEPT !.idx = @ + 1])
    /\ UNCHANGED <<dlq, registryVars, lifeVars, nextMsgId, isProcessing, delivered, raised, metrics, extVars>>

\* The loop taking the same topic again after a publish (a `while` that drains
\* the topic instead of one dequeue per topic).
publishResolved_drain(k) ==
    /\ ticks[k].pc = "awaitPublish"
    /\ delivered' = delivered \cup {ticks[k].msg.id}
    /\ loopHead(k, ticks[k])
    /\ \E latency \in Elapsed : recordLatency("publish", latency, getType)
    /\ UNCHANGED <<dlq, registryVars, lifeVars, nextMsgId, isProcessing, raised, extVars>>

\* adapter.publish resolved: the latency is recorded under 'publish', next topic.
publishResolved(k) ==
    /\ ticks[k].pc = "awaitPublish"
    /\ delivered' = delivered \cup {ticks[k].msg.id}
    /\ loopHead(k, [ticks[k] EXCEPT !.idx = @ + 1])
    /\ \E latency \in Elapsed : recordLatency("publish", latency, getType)
    /\ UNCHANGED <<dlq, registryVars, lifeVars, nextMsgId, isProcessing, raised, extVars>>

\* processQueues without the try/catch around adapter.publish: the rejection
\* leaves processQueues and, after the callback's finally, the callback.
publishRejected_noCatch(k) ==
    /\ ticks[k].pc = "awaitPublish"
    /\ ticks' = [ticks EXCEPT ![k].pc = "awaitProcessQueues",
                               ![k].rej = Append(@, ticks[k].topics[ticks[k].idx])]
    /\ raised' = raised \cup {"tick"}
    /\ UNCHANGED <<queueVars, registryVars, lifeVars, nextMsgId, isProcessing, delivered,
                   metrics, extVars>>

\* adapter.publish rejected: the catch block logs and re-enqueues.
publishRejected(k) ==
    /\ ticks[k].pc = "awaitPublish"
    /\ enqueue(ticks[k].topics[ticks[k].idx], ticks[k].msg)
    /\ ticks' = [ticks EXCEPT ![k].pc = "awaitEnqueue",
                               ![k].rej = Append(@, ticks[k].topics[ticks[k].idx])]
    /\ UNCHANGED <<registryVars, lifeVars, nextMsgId, isProcessing, delivered, raised, metrics, extVars>>

\* the re-enqueue resolved: next topic.
afterEnqueue(k) ==
    /\ ticks[k].pc = "awaitEnqueue"
    /\ loopHead(k, [ticks[k] EXCEPT !.idx = @ + 1])
    /\ UNCHANGED <<dlq, registryVars, lifeVars, nextMsgId, isProcessing, delivered, raised, metrics, extVars>>

\* processQueues returned: the finally block of the timer callback.
tickFinally(k) ==
    /\ ticks[k].pc = "awaitProcessQueues"
    /\ isProcessing' = FALSE
    /\ ticks' = [ticks EXCEPT ![k] = IdleTick]
    /\ UNCHANGED <<queueVars, registryVars, lifeVars, nextMsgId, delivered, raised, metrics, extVars>>

Next ==
    \/ \E t \in Topics, p \in PublishPriorities : publish(t, p)
    \/ \E t \in Topics : subscribe(t)
    \/ \E t \in Topics, id \in SubIds : unsubscribe(t, id)
    \/ connect
    \/ connectResolved
    \/ connectRejected
    \/ disconnect
    \/ tick
    \/ \E k \in TickIds : afterDequeue(k)
    \/ \E k \in TickIds : publishResolved(k)
    \/ \E k \in TickIds : publishRejected(k)
    \/ \E k \in TickIds : afterEnqueue(k)
    \/ \E k \in TickIds : tickFinally(k)

Spec == Init /\ [][Next]_vars

\* ------------------------------------------------- connect and disconnect calls
\* connect() and disconnect() with the call recorded, a disconnect() with
\* whether a connect() was still awaiting the adapter.
connectCalled == connectBegins /\ lastLifecycle' = "connect"

disconnectCalled ==
    /\ disconnectBegins
    /\ lastLifecycle' = IF connectPending > 0 THEN "disconnectDuringConnect"
                        ELSE "disconnect"

LifecycleNext ==
    \/ \E t \in Topics, p \in PublishPriorities : publish(t, p)
    \/ \E t \in Topics : subscribe(t)
    \/ connectCalled
    \/ connectResolved
    \/ connectRejected
    \/ disconnectCalled
    \/ tick
    \/ \E k \in TickIds : afterDequeue(k)
    \/ \E k \in TickIds : publishResolved(k)
    \/ \E k \in TickIds : publishRejected(k)
    \/ \E k \in TickIds : afterEnqueue(k)
    \/ \E k \in TickIds : tickFinally(k)

LifecycleSpec == Init /\ [][LifecycleNext]_vars

\* -------------------------------------------- the drain loop under fairness
\* The manager is connected and stays connected (no disconnect, adapter.connect
\* resolves), subscriptions are only added, the interval timer keeps firing,
\* every suspended await is resumed, every adapter.publish call completes and
\* adapter.publish does not reject for ever.
LiveNext ==
    \/ \E t \in Topics, p \in PublishPriorities : publish(t, p)
    \/ \E t \in Topics : subscribe(t)
    \/ connect
    \/ connectResolved
    \/ tick
    \/ \E k \in TickIds : afterDequeue(k)
    \/ \E k \in TickIds : publishResolved(k)
    \/ \E k \in TickIds : publishRejected(k)
    \/ \E k \in TickIds : afterEnqueue(k)
    \/ \E k \in TickIds : tickFinally(k)

LiveFairness ==
    /\ WF_vars(connect)
    /\ WF_vars(connectResolved)
    /\ WF_vars(tick)
    /\ \A k \in TickIds :
          /\ WF_vars(afterDequeue(k))
          /\ WF_vars(publishResolved(k) \/ publishRejected(k))
          /\ SF_vars(publishResolved(k))
          /\ WF_vars(afterEnqueue(k))
          /\ WF_vars(tickFinally(k))

LiveSpec == Init /\ [][LiveNext]_vars /\ LiveFairness

\* ------------------------------------ publishImmediate next to the drain loop
\* The manager connected, with publish, publishImmediate and the drain timer.
ImmediateNext ==
    \/ \E t \in Topics, o \in PlainOptions : publishMessage(t, o)
    \/ \E t \in Topics, o \in PlainOptions : publishImmediate(t, o)
    \/ \E c \in ImmediateCalls : immediateResolved(c)
    \/ \E c \in ImmediateCalls : immediateRejected(c)
    \/ \E t \in Topics : subscribe(t)
    \/ connect
    \/ connectResolved
    \/ tick
    \/ \E k \in TickIds : afterDequeue(k)
    \/ \E k \in TickIds : publishResolved(k)
    \/ \E k \in TickIds : publishRejected(k)
    \/ \E k \in TickIds : afterEnqueue(k)
    \/ \E k \in TickIds : tickFinally(k)

ImmediateSpec == Init /\ [][ImmediateNext]_vars

\* ------------------------------------ publish calls with every options value
\* publish and publishImmediate called with any options the type admits.
OptionsNext ==
    \/ \E t \in Topics, o \in Options : publishMessage(t, o)
    \/ \E t \in Topics, o \in Options : publishImmediate(t, o)
    \/ \E c \in ImmediateCalls : immediateResolved(c)
    \/ \E c \in ImmediateCalls : immediateRejected(c)

OptionsSpec == Init /\ [][OptionsNext]_vars

\* ------------------------------------------------ matchesFilters on its own
\* A caller calls matchesFilters(message, filters) and gets its result.
matchesFiltersCall(message, filters) ==
    /\ filterCall' = [made |-> TRUE, message |-> message, filters |-> filters,
                      result |-> matchesFilters(message, filters)]
    /\ UNCHANGED <<outboundVars, handlerVars, registryCalls, inboundVars, utilVars>>

\* Calls over the field values, and calls of one wildcard pattern on one
\* string over every short pattern and string.  The function keeps no state:
\* a behaviour holds one call.
FilterNext ==
    \/ /\ ~filterCall.made
       /\ \E m \in FilterMessages, f \in FilterSets : matchesFiltersCall(m, f)
    \/ /\ ~filterCall.made
       /\ \E chars \in ShortStrings, pattern \in Patterns :
          matchesFiltersCall([payload |-> [k \in {"region"} |-> JsString(chars)],
                              metadata |-> <<>>],
                             [k \in {"region"} |-> JsString(pattern)])

FilterSpec == Init /\ [][FilterNext]_vars

\* ------------------------------------------- the handler registry on its own
notHandlerVars == <<outboundVars, filterVars, registryCalls, inboundVars, utilVars>>

\* The handler objects a caller holds: those it created so far.
registered ==
    {globalHandlers[i] : i \in 1..Len(globalHandlers)}
        \cup UNION {{handlers[t][i] : i \in 1..Len(handlers[t])} : t \in Topics}

\* A caller registers a new handler object for a type.
registerCall(messageType, handler) ==
    /\ nextHandlerId <= MaxHandlers
    /\ handler.id = nextHandlerId
    /\ register(messageType, handler)
    /\ nextHandlerId' = nextHandlerId + 1
    /\ UNCHANGED notHandlerVars

\* A caller registers a new handler object as a global handler.
registerGlobalCall(handler) ==
    /\ nextHandlerId <= MaxHandlers
    /\ handler.id = nextHandlerId
    /\ registerGlobal(handler)
    /\ nextHandlerId' = nextHandlerId + 1
    /\ UNCHANGED notHandlerVars

\* A caller unregisters a handler object it registered, from any type.
unregisterCall(messageType, handler) ==
    /\ unregister(messageType, handler)
    /\ UNCHANGED <<nextHandlerId, notHandlerVars>>

HandlerNext ==
    \/ \E t \in Topics, h \in HandlerObjects : registerCall(t, h)
    \/ \E h \in HandlerObjects : registerGlobalCall(h)
    \/ \E t \in Topics : \E h \in registered : unregisterCall(t, h)

HandlerSpec == Init /\ [][HandlerNext]_vars

\* ----------------------------------------------- dispatch through the pipeline
\* UniversalHandlerRegistry.handle(message): the middleware chain, the
\* terminal step and the promises of the handlers it starts.  A frame of
\* dispatch.stack is a call that has not returned: of a middleware function
\* (mw is its place in the list) or of the terminal step (mw = 0), which
\* waits for the promises in `waiting`.
notPipelineVars == <<outboundVars, filterVars, registryCalls, inboundVars, toolVars>>

event(ev, id) == [ev |-> ev, id |-> id]
Frame(mw, waiting) == [mw |-> mw, calls |-> 0, waiting |-> waiting]

\* h.canHandle(message)
canHandle(handler, type) == type \in handler.accepts

\* The combined list sorted by priority as one list.
allHandlers_byPriority(type) == sortByPriority(globalHandlers \o handlers[type])

\* [...this.globalHandlers, ...handlers]
allHandlers(type) == globalHandlers \o handlers[type]

\* allHandlers.filter(h => h.canHandle(message))
selected(type) == SelectSeq(allHandlers(type), LAMBDA h : canHandle(h, type))

\* addMiddleware(middleware) putting the function ahead of the others.
addMiddleware_unshift(kind) ==
    middleware' = <<[id |-> Len(middleware) + 1, kind |-> kind]>> \o middleware

\* addMiddleware(middleware): push.  A function is known by the number of
\* its registration.
addMiddleware(kind) ==
    middleware' = Append(middleware, [id |-> Len(middleware) + 1, kind |-> kind])

\* handle rejects: the failure leaves every pending await of the chain.
rejected(d) == [d EXCEPT !.pc = "rejected", !.stack = <<>>]

\* The call on top of the stack returns; handle resolves when it was the last.
returned(d) ==
    LET rest == SubSeq(d.stack, 1, Len(d.stack) - 1)
    IN [d EXCEPT !.stack = rest, !.pc = IF rest = <<>> THEN "resolved" ELSE "running"]

\* Handlers of the terminal step that can throw out of handle ahead of
\* returning a promise (0: none does); a call of next that starts a
\* middleware function reaches no handler.
throwers(d) ==
    IF d.index < Len(middleware) THEN {0} ELSE 0..Len(selected(d.type))

\* next() called by `caller` (0: handle itself).  With middleware left, the
\* one at `index` is called and index moves on.  Otherwise the terminal
\* step: map calls handle on the selected handlers in list order and
\* Promise.all awaits what they returned; the handler at `thrower` throwing
\* ends map there, and the promises map had collected are dropped.
next(d, caller, thrower) ==
    LET called == [d EXCEPT !.log = Append(@, event("next", caller))]
        list == selected(d.type)
        run == d.runs + 1
        promise(i, awaited) == [run |-> run, h |-> list[i].id, awaited |-> awaited]
    IN IF d.index < Len(middleware)
       THEN LET fn == middleware[d.index + 1]
            IN [called EXCEPT !.index = @ + 1,
                              !.stack = Append(@, Frame(d.index + 1, {})),
                              !.log = Append(@, event("middleware", fn.id))]
       ELSE IF thrower = 0
       THEN LET promises == {promise(i, TRUE) : i \in 1..Len(list)}
            IN [called EXCEPT !.runs = run,
                              !.stack = Append(@, Frame(0, promises)),
                              !.pending = @ \cup promises,
                              !.log = @ \o <<event("terminal", run)>>
                                        \o [i \in 1..Len(list) |-> event("start", list[i].id)]]
       ELSE LET promises == {promise(i, FALSE) : i \in 1..(thrower - 1)}
            IN rejected([called EXCEPT
                   !.runs = run,
                   !.pending = @ \cup promises,
                   !.log = @ \o <<event("terminal", run)>>
                             \o [i \in 1..thrower |-> event("start", list[i].id)]
                             \o <<event("threw", list[thrower].id)>>])

\* manager.registerHandler / registerGlobalHandler / addMiddleware at setup,
\* ahead of the dispatch.
registerHandler(messageType, handler) ==
    /\ dispatch.pc = "none"
    /\ nextHandlerId <= MaxPipelineHandlers
    /\ handler.id = nextHandlerId
    /\ register(messageType, handler)
    /\ nextHandlerId' = nextHandlerId + 1
    /\ UNCHANGED <<notPipelineVars, pipelineVars>>

registerGlobalHandler(handler) ==
    /\ dispatch.pc = "none"
    /\ nextHandlerId <= MaxPipelineHandlers
    /\ handler.id = nextHandlerId
    /\ registerGlobal(handler)
    /\ nextHandlerId' = nextHandlerId + 1
    /\ UNCHANGED <<notPipelineVars, pipelineVars>>

addMiddlewareCall(kind) ==
    /\ dispatch.pc = "none"
    /\ Len(middleware) < MaxMiddleware
    /\ addMiddleware(kind)
    /\ UNCHANGED <<notPipelineVars, handlerVars, dispatch>>

\* handle(message) is called: `await next()`.
handleCall(type, thrower) ==
    LET called == [NoDispatch EXCEPT !.pc = "running", !.type = type]
    IN /\ dispatch.pc = "none"
       /\ thrower \in throwers(called)
       /\ dispatch' = next(called, 0, thrower)
       /\ UNCHANGED <<notPipelineVars, handlerVars, middleware>>

\* The middleware function on top of the stack runs on, to its next call of
\* next, to its return or to its throw.
middlewareRuns(thrower) ==
    /\ dispatch.pc = "running"
    /\ dispatch.stack # <<>>
    /\ LET top == dispatch.stack[Len(dispatch.stack)]
           kind == middleware[top.mw].kind
           calls == IF kind = "pass" THEN 1 ELSE IF kind = "twice" THEN 2 ELSE 0
           calling == [dispatch EXCEPT !.stack[Len(dispatch.stack)].calls = @ + 1]
       IN /\ top.mw # 0
          /\ IF kind = "throw"
             THEN /\ thrower = 0
                  /\ dispatch' = rejected([dispatch EXCEPT
                                      !.log = Append(@, event("failed", top.mw))])
             ELSE IF top.calls < calls
             THEN /\ thrower \in throwers(dispatch)
                  /\ dispatch' = next(calling, top.mw, thrower)
             ELSE /\ thrower = 0
                  /\ dispatch' = returned(dispatch)
    /\ UNCHANGED <<notPipelineVars, handlerVars, middleware>>

\* Promise.all resolved: every promise it was given has resolved.
promiseAllResolved ==
    /\ dispatch.pc = "running"
    /\ dispatch.stack # <<>>
    /\ LET top == dispatch.stack[Len(dispatch.stack)]
       IN /\ top.mw = 0
          /\ top.waiting = {}
          /\ dispatch' = returned(dispatch)
    /\ UNCHANGED <<notPipelineVars, handlerVars, middleware>>

\* The promise a handler's handle returned settles.  A rejection of a
\* promise Promise.all waits for rejects it, and handle with it; the
\* rejection of a promise that map dropped is handled by nobody.
handlerSettled(p, outcome) ==
    LET settled == [dispatch EXCEPT !.pending = @ \ {p},
                                    !.log = Append(@, event(outcome, p.h))]
        depth == Len(dispatch.stack)
        awaitedNow == /\ dispatch.pc = "running"
                      /\ depth > 0
                      /\ p \in dispatch.stack[depth].waiting
    IN /\ p \in dispatch.pending
       /\ dispatch' =
             IF ~awaitedNow THEN settled
             ELSE IF outcome = "rejected" THEN rejected(settled)
             ELSE [settled EXCEPT !.stack[depth].waiting = @ \ {p}]
       /\ raised' = IF outcome = "rejected" /\ ~p.awaited
                     THEN raised \cup {"unhandledRejection"} ELSE raised
       /\ UNCHANGED <<queueVars, registryVars, lifeVars, nextMsgId, isProcessing, ticks,
                      delivered, metrics, immediate, filterVars, registryCalls, inboundVars,
                      handlerVars, middleware, toolVars>>

\* A dispatch of a message of type t1 after the setup.
DispatchNext ==
    \/ \E t \in Topics, h \in PipelineHandlers : registerHandler(t, h)
    \/ \E h \in PipelineHandlers : registerGlobalHandler(h)
    \/ \E k \in MiddlewareKinds : addMiddlewareCall(k)
    \/ \E thrower \in 0..MaxPipelineHandlers : handleCall("t1", thrower)
    \/ \E thrower \in 0..MaxPipelineHandlers : middlewareRuns(thrower)
    \/ promiseAllResolved
    \/ \E p \in dispatch.pending, o \in {"resolved", "rejected"} : handlerSettled(p, o)

DispatchSpec == Init /\ [][DispatchNext]_vars

\* register, registerGlobal and addMiddleware called while handle is
\* suspended at an await; the log of the dispatch notes the call.
noted(ev, id) == [dispatch EXCEPT !.log = Append(@, event(ev, id))]

registerInFlight(messageType, handler) ==
    /\ dispatch.pc = "running"
    /\ nextHandlerId <= MaxPipelineHandlers
    /\ handler.id = nextHandlerId
    /\ register(messageType, handler)
    /\ nextHandlerId' = nextHandlerId + 1
    /\ dispatch' = noted("registered", handler.id)
    /\ UNCHANGED <<notPipelineVars, middleware>>

registerGlobalInFlight(handler) ==
    /\ dispatch.pc = "running"
    /\ nextHandlerId <= MaxPipelineHandlers
    /\ handler.id = nextHandlerId
    /\ registerGlobal(handler)
    /\ nextHandlerId' = nextHandlerId + 1
    /\ dispatch' = noted("registered", handler.id)
    /\ UNCHANGED <<notPipelineVars, middleware>>

addMiddlewareInFlight(kind) ==
    /\ dispatch.pc = "running"
    /\ Len(middleware) < MaxMiddleware
    /\ addMiddleware(kind)
    /\ dispatch' = noted("added", Len(middleware) + 1)
    /\ UNCHANGED <<notPipelineVars, handlerVars>>

\* Handlers registered while a dispatch is in flight: of the higher
\* priority, so that the sort moves the handlers registered before them.
LateHandlers == {h \in PipelineHandlers : h.priority = 10 /\ h.accepts = Topics}

\* A dispatch of a message of type t1 with registrations ahead of it and
\* while it is in flight.
ConcurrentNext ==
    \/ \E h \in PipelineHandlers : registerHandler("t1", h)
    \/ \E k \in MiddlewareKinds : addMiddlewareCall(k)
    \/ \E h \in LateHandlers : registerInFlight("t1", h)
    \/ \E h \in LateHandlers : registerGlobalInFlight(h)
    \/ addMiddlewareInFlight("pass")
    \/ \E thrower \in 0..MaxPipelineHandlers : handleCall("t1", thrower)
    \/ \E thrower \in 0..MaxPipelineHandlers : middlewareRuns(thrower)
    \/ promiseAllResolved
    \/ \E p \in dispatch.pending, o \in {"resolved", "rejected"} : handlerSettled(p, o)

ConcurrentSpec == Init /\ [][ConcurrentNext]_vars

\* --------------------------------------------------------- circuit breaker
\* CircuitBreaker, after section 4.4 of the specification: CLOSED, OPEN and
\* HALF_OPEN, a count of consecutive failures and the time OPEN was entered.
\* execute(operation) is two steps, the call and the settling of the
\* operation it invoked; `history` holds what each call came to.
notBreakerVars == <<outboundVars, filterVars, registryCalls, inboundVars, handlerVars,
                    pipelineVars, retryVars, statsCall, helperVars>>

\* recoveryTimeout has elapsed since OPEN was entered.
timedOut(b) == b.now - b.openedAt >= recoveryTimeout

\* A success that leaves the failure count as it is.
onSuccess_keepCount(b) == [b EXCEPT !.state = "CLOSED"]

\* A protected call succeeded: CLOSED (from CLOSED or HALF_OPEN), count zero.
onSuccess(b) == [b EXCEPT !.state = "CLOSED", !.failures = 0]

\* A failure that opens the breaker without restarting the recovery timer.
onFailure_keepTimer(b) ==
    IF b.state = "HALF_OPEN" THEN [b EXCEPT !.state = "OPEN"]
    ELSE IF b.failures + 1 >= failureThreshold
    THEN [b EXCEPT !.state = "OPEN", !.failures = @ + 1, !.openedAt = b.now]
    ELSE [b EXCEPT !.failures = @ + 1]

\* A protected call failed: HALF_OPEN goes back to OPEN; CLOSED counts the
\* failure and goes to OPEN when the count reaches failureThreshold.
\* Entering OPEN starts the recovery timer.
onFailure(b) ==
    IF b.state = "HALF_OPEN" THEN [b EXCEPT !.state = "OPEN", !.openedAt = b.now]
    ELSE IF b.failures + 1 >= failureThreshold
    THEN [b EXCEPT !.state = "OPEN", !.failures = @ + 1, !.openedAt = b.now]
    ELSE [b EXCEPT !.failures = @ + 1]

\* new CircuitBreaker(config)
newCircuitBreaker(period) ==
    /\ breaker.state = "none"
    /\ breaker' = [breaker EXCEPT !.state = "CLOSED", !.monitoringPeriod = period]
    /\ UNCHANGED notBreakerVars

\* execute(operation) up to the call of the operation: OPEN within the
\* timeout fails with the circuit-open error; OPEN past it becomes HALF_OPEN.
execute ==
    /\ breaker.state # "none"
    /\ ~breaker.inFlight
    /\ Len(breaker.history) < MaxCalls
    /\ breaker' =
          IF breaker.state = "OPEN" /\ ~timedOut(breaker)
          THEN [breaker EXCEPT !.history = Append(@, "circuit-open")]
          ELSE [breaker EXCEPT
                   !.state = IF @ = "OPEN" THEN "HALF_OPEN" ELSE @,
                   !.inFlight = TRUE,
                   !.history = Append(@, "invoked")]
    /\ UNCHANGED notBreakerVars

\* The operation settled: success or failure is recorded.
operationSettled(outcome) ==
    LET recorded == [breaker EXCEPT !.inFlight = FALSE,
                                    !.history[Len(breaker.history)] = outcome]
    IN /\ breaker.inFlight
       /\ breaker' = IF outcome = "success" THEN onSuccess(recorded) ELSE onFailure(recorded)
       /\ UNCHANGED notBreakerVars

\* The clock moves on.
timePasses ==
    /\ breaker.state # "none"
    /\ breaker.now < MaxTime
    /\ breaker' = [breaker EXCEPT !.now = @ + 1]
    /\ UNCHANGED notBreakerVars

BreakerNext ==
    \/ \E period \in MonitoringPeriods : newCircuitBreaker(period)
    \/ execute
    \/ \E outcome \in {"success", "failure"} : operationSettled(outcome)
    \/ timePasses

BreakerSpec == Init /\ [][BreakerNext]_vars

\* ------------------------------------------------------------ retry handler
\* RetryHandler.handle(message): the counter is read, processMessage is
\* awaited, and its failure is counted and answered with a timer.
notRetryVars == <<outboundVars, filterVars, registryCalls, inboundVars, handlerVars,
                  pipelineVars, breaker, statsCall, helperVars>>

\* Math.pow(2, n)
RECURSIVE pow2(_)
pow2(n) == IF n = 0 THEN 1 ELSE 2 * pow2(n - 1)

\* this.retryCount.get(message.id) || 0
currentRetries(id) == IF id \in DOMAIN retryCount THEN retryCount[id] ELSE 0

\* this.retryCount.delete(id) and this.retryCount.set(id, n)
retryDelete(id) == [m \in DOMAIN retryCount \ {id} |-> retryCount[m]]
retrySet(id, n) == [m \in DOMAIN retryCount \cup {id} |-> IF m = id THEN n ELSE retryCount[m]]

\* A backoff that doubles from the first failure on.
backoff_fromOne(retries) == retryDelay * pow2(retries + 1)

\* this.retryDelay * Math.pow(2, currentRetries)
backoff(retries) == retryDelay * pow2(retries)

\* handle(message) up to its await.  With the counter at maxRetries the
\* entry is deleted and handle returns; otherwise processMessage is called.
retryHandle(id) ==
    LET call == lastRetry.call + Cardinality(retryPending) + 1
    IN /\ call <= MaxRetryCalls
       /\ IF currentRetries(id) >= maxRetries
          THEN /\ retryCount' = retryDelete(id)
               /\ lastRetry' = [call |-> lastRetry.call + 1, id |-> id,
                                 attempted |-> FALSE, result |-> "resolved"]
               /\ UNCHANGED retryPending
          ELSE /\ retryPending' = retryPending
                     \cup {[call |-> call, id |-> id, currentRetries |-> currentRetries(id)]}
               /\ UNCHANGED <<retryCount, lastRetry>>
       /\ UNCHANGED <<retryTimers, notRetryVars>>

\* processMessage rejected (it always throws): the catch block counts the
\* failure and sets the timer; handle returns.
processMessageRejected(pending) ==
    /\ pending \in retryPending
    /\ retryPending' = retryPending \ {pending}
    /\ retryCount' = retrySet(pending.id, pending.currentRetries + 1)
    /\ retryTimers' = retryTimers
          \cup {[call |-> pending.call, id |-> pending.id,
                  delay |-> backoff(pending.currentRetries)]}
    /\ lastRetry' = [call |-> lastRetry.call + 1, id |-> pending.id,
                      attempted |-> TRUE, result |-> "resolved"]
    /\ UNCHANGED notRetryVars

\* A timer fires: its callback logs `Retrying message ...`.
retryTimerFired(timer) ==
    /\ timer \in retryTimers
    /\ retryTimers' = retryTimers \ {timer}
    /\ UNCHANGED <<retryCount, retryPending, lastRetry, notRetryVars>>

RetryNext ==
    \/ \E id \in RetryIds : retryHandle(id)
    \/ \E pending \in retryPending : processMessageRejected(pending)
    \/ \E timer \in retryTimers : retryTimerFired(timer)

RetrySpec == Init /\ [][RetryNext]_vars

\* ------------------------------------------- the performance monitor on its own
notMonitorVars == <<queueVars, registryVars, lifeVars, nextMsgId, isProcessing, ticks,
                    delivered, raised, immediate, filterVars, registryCalls, inboundVars,
                    handlerVars, pipelineVars, breaker, retryVars, helperVars>>

\* monitor.recordLatency(operation, latency, broker)
recordLatencyCall(operation, latency, broker) ==
    /\ recordLatency(operation, latency, broker)
    /\ UNCHANGED <<notMonitorVars, statsCall>>

\* The statistics of getMetrics computed over a window of any length.
latencyStatsCall(samples) ==
    /\ statsCall' = [made |-> TRUE, samples |-> samples, result |-> latencyStats(samples)]
    /\ UNCHANGED <<notMonitorVars, metrics>>

MonitorNext ==
    \/ \E o \in MonitorOperations, x \in Samples, b \in MonitorBrokers :
          recordLatencyCall(o, x, b)
    \/ /\ ~statsCall.made
       /\ \E w \in Windows : latencyStatsCall(w)

MonitorSpec == Init /\ [][MonitorNext]_vars

\* ------------------------------------------- subscriptions and inbound delivery
\* manager.subscribe and manager.unsubscribe with the adapter's side of them,
\* and the wrapped callback the adapter invokes for a message it receives.
inboundFrame == <<queueVars, lifeVars, nextMsgId, isProcessing, ticks, delivered,
                  immediate, filterVars, registryCalls, globalHandlers, nextHandlerId,
                  utilVars>>

\* The id manager.subscribe makes (`sub_...`) and the handle the adapter makes
\* (`redis_sub_...`).
subscriptionId(id) == <<"sub", id>>
handle(n) == <<"redis_sub", n>>

\* The ValidationHandler: priority 10, a schema for every type, each schema
\* requiring these payload fields.
ValidationHandler == [id |-> 0, hasPriority |-> TRUE, priority |-> 10]
requiredFields == {"region"}

\* ValidationHandler.handle throws: a required field is not in the payload.
validationFails(message) == \E field \in requiredFields : field \notin DOMAIN message.payload

\* [...globalHandlers, ...handlers] filtered by canHandle (every modelled
\* handler can handle every modelled type).
applicable(message) ==
    LET list == allHandlers(message.type)
    IN {list[i] : i \in 1..Len(list)}

\* handle(message), having called these handlers, can resolve: none of them
\* is bound to throw; it can reject: one of them can throw (a handler other than the
\* ValidationHandler may throw or not).
mayResolve(called, message) ==
    \A h \in called : h = ValidationHandler => ~validationFails(message)
mayReject(called, message) ==
    \E h \in called : h = ValidationHandler => validationFails(message)

\* new RegExp(source) throws: the source opens a group it does not close.
invalidSource(source) == \E i \in 1..Len(source) : source[i] = "("

\* matchesFilters throws for these filters.
filtersThrow(filters) ==
    /\ filters # NoFilters
    /\ \E key \in DOMAIN filters :
          /\ filters[key].kind = "string"
          /\ includesStar(filters[key].str)
          /\ invalidSource(replaceStar(filters[key].str))

\* options.filters of the modelled subscribe calls, payloads of the messages
\* the broker delivers, and what the subscriber's callback does when called.
BadPattern == <<"(", "*">>
InboundFilters == {NoFilters, [k \in {"region"} |-> JsString(UsStar)],
                   [k \in {"region"} |-> JsString(BadPattern)]}
InboundPayloads == {<<>>, [k \in {"region"} |-> JsString(UsEast)],
                    [k \in {"region"} |-> JsString(EuWest)]}
CallbackOutcomes == {"returns", "throws", "rejects"}

\* manager.subscribe(topic, callback, options) up to its await: the
\* subscription is built and registered, adapter.subscribe is called.
managerSubscribe(topic, filters) ==
    /\ nextSubId <= MaxSubs
    /\ registrySubscribe(topic, nextSubId)
    /\ wrappers' = (nextSubId :> [topic |-> topic, filters |-> filters]) @@ wrappers
    /\ subscribing' = subscribing \cup {nextSubId}
    /\ nextSubId' = nextSubId + 1
    /\ UNCHANGED <<inboundFrame, raised, metrics, handlers, adapterSubscriptions, listeners,
                   nextHandle, adapterUnsubscribes, lastUnsubscribe, deliveries, nextDelivery>>

\* RedisAdapter.subscribe resolved: the listener is attached, the handle is
\* stored and returned; manager.subscribe drops it and returns its own id.
adapterSubscribeResolved(id) ==
    /\ id \in subscribing
    /\ subscribing' = subscribing \ {id}
    /\ listeners' = listeners \cup {[topic |-> wrappers[id].topic, sub |-> id]}
    /\ adapterSubscriptions' =
          (handle(nextHandle) :> [topic |-> wrappers[id].topic, sub |-> id])
              @@ adapterSubscriptions
    /\ nextHandle' = nextHandle + 1
    /\ UNCHANGED <<inboundFrame, registryVars, raised, metrics, handlers, wrappers,
                   adapterUnsubscribes, lastUnsubscribe, deliveries, nextDelivery>>

\* adapter.subscribe rejected: manager.subscribe rejects.
adapterSubscribeRejected(id) ==
    /\ id \in subscribing
    /\ subscribing' = subscribing \ {id}
    /\ raised' = raised \cup {"subscribe"}
    /\ UNCHANGED <<inboundFrame, registryVars, metrics, handlers, wrappers,
                   adapterSubscriptions, listeners, nextHandle, adapterUnsubscribes,
                   lastUnsubscribe, deliveries, nextDelivery>>

\* RedisAdapter.unsubscribe(subscriptionId): false when its Map has no such
\* key, else the entry is deleted (the 'message' listener stays attached).
adapterUnsubscribe(key) ==
    adapterSubscriptions' =
        IF key \in DOMAIN adapterSubscriptions
        THEN [h \in DOMAIN adapterSubscriptions \ {key} |-> adapterSubscriptions[h]]
        ELSE adapterSubscriptions

\* manager.unsubscribe(topic, subscriptionId); the caller has an id once the
\* subscribe call that made it has settled.
managerUnsubscribe(topic, id) ==
    LET removed == unsubscribeResult(topic, id) IN
    /\ id \notin subscribing
    /\ registryUnsubscribe(topic, id)
    /\ IF removed
       THEN /\ adapterUnsubscribe(subscriptionId(id))
            /\ adapterUnsubscribes' =
                  adapterUnsubscribes \cup {[sub |-> id, arg |-> subscriptionId(id)]}
       ELSE UNCHANGED <<adapterSubscriptions, adapterUnsubscribes>>
    /\ lastUnsubscribe' = [topic |-> topic, id |-> id, result |-> removed]
    /\ UNCHANGED <<inboundFrame, nextSubId, raised, metrics, handlers, wrappers, subscribing,
                   listeners, nextHandle, deliveries, nextDelivery>>

\* A ValidationHandler is registered for a type.
installValidation(messageType) ==
    /\ indexOf(handlers[messageType], ValidationHandler) = 0
    /\ register(messageType, ValidationHandler)
    /\ UNCHANGED <<outboundVars, filterVars, registryCalls, nextHandlerId, inboundVars,
                   utilVars>>

\* The finally block of the wrapped callback.
recordSubscription ==
    \E latency \in Elapsed : recordLatency("subscription", latency, getType)

\* The adapter's listener calls the wrapped callback with a message: the
\* filter check and, on a match, the call of handlerRegistry.handle, which
\* calls every applicable handler, up to its await.
deliver(listener, message) ==
    LET filters == wrappers[listener.sub].filters
        d == nextDelivery
        settled(log) == [pc |-> "settled", sub |-> listener.sub, message |-> message,
                         handlers |-> {}, log |-> log]
    IN /\ nextDelivery <= MaxDeliveries
       /\ listener \in listeners
       /\ message.type = listener.topic
       /\ nextDelivery' = nextDelivery + 1
       /\ IF filtersThrow(filters)
          THEN /\ deliveries' = [deliveries EXCEPT
                      ![d] = settled(<<"filterThrew", "caught", "latency">>)]
               /\ recordSubscription
          ELSE IF ~matchesFilters(message, filters)
          THEN /\ deliveries' = [deliveries EXCEPT
                      ![d] = settled(<<"filterSkipped", "latency">>)]
               /\ recordSubscription
          ELSE /\ deliveries' = [deliveries EXCEPT
                      ![d] = [pc |-> "awaitHandle", sub |-> listener.sub,
                              message |-> message, handlers |-> applicable(message),
                              log |-> <<"filterMatched", "handle">>]]
               /\ UNCHANGED metrics
       /\ UNCHANGED <<inboundFrame, registryVars, raised, handlers, wrappers, subscribing,
                      adapterSubscriptions, listeners, nextHandle, adapterUnsubscribes,
                      lastUnsubscribe>>

\* The wrapped callback calling the subscriber's callback although
\* handlerRegistry.handle rejected.
handleRejected_callback(d) ==
    /\ deliveries[d].pc = "awaitHandle"
    /\ mayReject(deliveries[d].handlers, deliveries[d].message)
    /\ deliveries' = [deliveries EXCEPT
          ![d].pc = "settled",
          ![d].log = @ \o <<"handleFailed", "callback", "latency">>]
    /\ recordSubscription
    /\ UNCHANGED <<inboundFrame, registryVars, raised, handlers, wrappers, subscribing,
                   adapterSubscriptions, listeners, nextHandle, adapterUnsubscribes,
                   lastUnsubscribe, nextDelivery>>

\* handlerRegistry.handle resolved: callback(message) is called and not
\* awaited.  What it throws is caught; a promise it returns is dropped, so
\* its rejection is handled by nobody.
handleResolved(d, outcome) ==
    /\ deliveries[d].pc = "awaitHandle"
    /\ mayResolve(deliveries[d].handlers, deliveries[d].message)
    /\ deliveries' = [deliveries EXCEPT
          ![d].pc = "settled",
          ![d].log = @ \o (IF outcome = "throws"
                           THEN <<"handled", "callback", "caught", "latency">>
                           ELSE <<"handled", "callback", "latency">>)]
    /\ raised' = IF outcome = "rejects" THEN raised \cup {"unhandledRejection"} ELSE raised
    /\ recordSubscription
    /\ UNCHANGED <<inboundFrame, registryVars, handlers, wrappers, subscribing,
                   adapterSubscriptions, listeners, nextHandle, adapterUnsubscribes,
                   lastUnsubscribe, nextDelivery>>

\* handlerRegistry.handle rejected: caught and logged, the callback is skipped.
handleRejected(d) ==
    /\ deliveries[d].pc = "awaitHandle"
    /\ mayReject(deliveries[d].handlers, deliveries[d].message)
    /\ deliveries' = [deliveries EXCEPT
          ![d].pc = "settled",
          ![d].log = @ \o <<"handleFailed", "caught", "latency">>]
    /\ recordSubscription
    /\ UNCHANGED <<inboundFrame, registryVars, raised, handlers, wrappers, subscribing,
                   adapterSubscriptions, listeners, nextHandle, adapterUnsubscribes,
                   lastUnsubscribe, nextDelivery>>

InboundNext ==
    \/ \E t \in Topics, f \in InboundFilters : managerSubscribe(t, f)
    \/ \E id \in SubIds : adapterSubscribeResolved(id)
    \/ \E t \in Topics : installValidation(t)
    \/ \E l \in listeners, p \in InboundPayloads :
          deliver(l, [type |-> l.topic, payload |-> p, metadata |-> <<>>])
    \/ \E d \in DeliveryIds, o \in CallbackOutcomes : handleResolved(d, o)
    \/ \E d \in DeliveryIds : handleRejected(d)

InboundSpec == Init /\ [][InboundNext]_vars

\* Subscribing and unsubscribing through the manager, without deliveries.
SubscriptionNext ==
    \/ \E t \in Topics : managerSubscribe(t, NoFilters)
    \/ \E id \in SubIds : adapterSubscribeResolved(id)
    \/ \E id \in SubIds : adapterSubscribeRejected(id)
    \/ \E t \in Topics, id \in SubIds : managerUnsubscribe(t, id)

SubscriptionSpec == Init /\ [][SubscriptionNext]_vars

\* Deliveries next to manager.unsubscribe.  manager.unsubscribe has returned
\* true for an id once it has made its adapter.unsubscribe call for it; each
\* message the broker delivers says in its metadata whether it was sent after
\* that.
unsubscribed(id) == \E call \in adapterUnsubscribes : call.sub = id

sentTo(listener) ==
    [type |-> listener.topic, payload |-> <<>>,
     metadata |-> [afterUnsubscribe |-> unsubscribed(listener.sub)]]

UnsubscribedNext ==
    \/ \E t \in Topics : managerSubscribe(t, NoFilters)
    \/ \E id \in SubIds : adapterSubscribeResolved(id)
    \/ \E t \in Topics, id \in SubIds : managerUnsubscribe(t, id)
    \/ \E l \in listeners : deliver(l, sentTo(l))
    \/ \E d \in DeliveryIds : handleResolved(d, "returns")

UnsubscribedSpec == Init /\ [][UnsubscribedNext]_vars

\* Deliveries with the middleware of IntegrationHelper.setupCommonMiddleware.
commonFrame == <<queueVars, lifeVars, nextMsgId, isProcessing, ticks, delivered,
                 immediate, filterVars, registryCalls, globalHandlers, nextHandlerId,
                 breaker, retryVars, statsCall>>

commonMiddleware == <<"correlation", "rateLimit", "dedup">>

\* setupCommonMiddleware(manager): three calls of manager.addMiddleware.
setupCommonMiddleware ==
    /\ middleware = <<>>
    /\ middleware' = [i \in 1..Len(commonMiddleware) |->
                         [id |-> i, kind |-> commonMiddleware[i]]]
    /\ UNCHANGED <<notPipelineVars, handlerVars, dispatch>>

\* messageIds.add(message.id) and, past maxRemembered ids, the deletion of
\* the first `forgotten` of them in insertion order.
remember(ids, id) ==
    LET added == Append(ids, id)
    IN IF Len(added) > maxRemembered
       THEN SubSeq(added, forgotten + 1, Len(added))
       ELSE added

\* messageIds.has(id)
remembered(id) == \E i \in 1..Len(messageIds) : messageIds[i] = id

\* The wrapped callback is called with a message while the common
\* middleware is installed: handle runs the three functions in turn.  The
\* rate limiter, its window over or not, throws at the limit and counts
\* otherwise; the third returns without next for a remembered id, else it
\* remembers the id and calls next, which starts the handlers.
deliverCommon(listener, message, windowOver) ==
    LET d == nextDelivery
        count == IF windowOver THEN 0 ELSE rateLimiter
        invocation(pc, called, log) ==
            [pc |-> pc, sub |-> listener.sub, message |-> message,
             handlers |-> called, log |-> <<"filterMatched", "handle">> \o log]
    IN /\ nextDelivery <= MaxDeliveries
       /\ listener \in listeners
       /\ message.type = listener.topic
       /\ wrappers[listener.sub].filters = NoFilters
       /\ Len(middleware) = Len(commonMiddleware)
       /\ \A i \in 1..Len(middleware) : middleware[i].kind = commonMiddleware[i]
       /\ nextDelivery' = nextDelivery + 1
       /\ IF count >= rateLimit
          THEN /\ deliveries' = [deliveries EXCEPT ![d] =
                      invocation("settled", {},
                                 <<"rateLimited", "handleFailed", "caught", "latency">>)]
               /\ rateLimiter' = count
               /\ messageIds' = messageIds
               /\ recordSubscription
          ELSE /\ rateLimiter' = count + 1
               /\ UNCHANGED metrics
               /\ IF remembered(message.id)
                  THEN /\ deliveries' = [deliveries EXCEPT ![d] =
                              invocation("awaitHandle", {}, <<"duplicate">>)]
                       /\ messageIds' = messageIds
                  ELSE /\ deliveries' = [deliveries EXCEPT ![d] =
                              invocation("awaitHandle", applicable(message), <<"terminal">>)]
                       /\ messageIds' = remember(messageIds, message.id)
       /\ UNCHANGED <<commonFrame, pipelineVars, registryVars, raised, handlers, wrappers,
                      subscribing, adapterSubscriptions, listeners, nextHandle,
                      adapterUnsubscribes, lastUnsubscribe>>

CommonNext ==
    \/ \E t \in Topics : managerSubscribe(t, NoFilters)
    \/ \E id \in SubIds : adapterSubscribeResolved(id)
    \/ \E t \in Topics : installValidation(t)
    \/ setupCommonMiddleware
    \/ \E l \in listeners, id \in InboundIds, p \in {<<>>, [k \in {"region"} |-> JsString(UsEast)]},
          windowOver \in BOOLEAN :
          deliverCommon(l, [id |-> id, type |-> l.topic, payload |-> p, metadata |-> <<>>],
                        windowOver)
    \/ \E d \in DeliveryIds : handleResolved(d, "returns")
    \/ \E d \in DeliveryIds : handleRejected(d)

CommonSpec == Init /\ [][CommonNext]_vars

\* ------------------------------------- the subscription registry on its own
\* Direct calls of UniversalSubscriptionManager.subscribe and unsubscribe with
\* ids the caller chooses; the manager around the registry stays as constructed.
notRegistryVars == <<queueVars, lifeVars, nextSubId, nextMsgId, isProcessing, ticks,
                     delivered, raised, metrics, immediate, filterVars, handlerVars,
                     inboundVars, utilVars>>

subscribesMade ==
    LET RECURSIVE sum(_)
        sum(pairs) == IF pairs = {} THEN 0
                      ELSE LET x == CHOOSE y \in pairs : TRUE
                           IN registryCalls.subscribes[x] + sum(pairs \ {x})
    IN sum(Topics \X SubIds)

registrySubscribeCall(topic, id) ==
    /\ subscribesMade < MaxRegistrySubscribes
    /\ registrySubscribe(topic, id)
    /\ registryCalls' =
          [registryCalls EXCEPT
              !.subscribes[<<topic, id>>] = @ + 1,
              !.overwrites[<<topic, id>>] =
                  IF hasTopic(topic) /\ id \in subscriptions[topic] THEN @ + 1 ELSE @,
              !.last = [op |-> "subscribe", topic |-> topic, id |-> id, result |-> TRUE]]
    /\ UNCHANGED notRegistryVars

registryUnsubscribeCall(topic, id) ==
    /\ registryUnsubscribe(topic, id)
    /\ registryCalls' =
          [registryCalls EXCEPT
              !.trues[<<topic, id>>] = IF unsubscribeResult(topic, id) THEN @ + 1 ELSE @,
              !.last = [op |-> "unsubscribe", topic |-> topic, id |-> id,
                        result |-> unsubscribeResult(topic, id)]]
    /\ UNCHANGED notRegistryVars

RegistryNext ==
    \/ \E t \in Topics, id \in SubIds : registrySubscribeCall(t, id)
    \/ \E t \in Topics, id \in SubIds : registryUnsubscribeCall(t, id)

RegistrySpec == Init /\ [][RegistryNext]_vars

\* ------------------------------------------------- the queue class on its own
\* Direct calls of UniversalMessageQueue.enqueue and dequeue, with every
\* priority value; the manager around the queue stays as constructed.
managerVars == <<registryVars, lifeVars, isProcessing, ticks, delivered, raised,
                 metrics, extVars>>

queueEnqueue(topic, priority) ==
    /\ nextMsgId <= MaxMsgs
    /\ enqueue(topic, [id |-> nextMsgId, type |-> topic, priority |-> priority])
    /\ nextMsgId' = nextMsgId + 1
    /\ UNCHANGED managerVars

queueDequeue(topic) ==
    /\ dequeue(topic)
    /\ UNCHANGED <<dlq, nextMsgId, managerVars>>

QueueNext ==
    \/ \E t \in Topics, p \in Priorities : queueEnqueue(t, p)
    \/ \E t \in Topics : queueDequeue(t)

QueueSpec == Init /\ [][QueueNext]_vars

\* ==================================================================== claims
\* The topic a suspended tick is working on.
tickTopic(k) == ticks[k].topics[ticks[k].idx]

\* C1: in every state of the queue class, each topic's live queue is ordered
\* by non-increasing priority value (a message without a priority counting as
\* normal) and messages of equal priority value are in the order of their
\* enqueue calls (under QueueSpec message ids number the enqueue calls), so
\* dequeue, which takes the head, returns them in that order.
C1_PriorityFifoOrder ==
    \A t \in Topics : \A i, j \in 1..Len(queues[t]) :
        i < j =>
            \/ getPriorityValue(queues[t][i].priority) > getPriorityValue(queues[t][j].priority)
            \/ /\ getPriorityValue(queues[t][i].priority) = getPriorityValue(queues[t][j].priority)
               /\ queues[t][i].id < queues[t][j].id

\* A message without a priority queued ahead of a later "normal" one, after
\* the first message enqueued has been dequeued.
C1_Witness ==
    \E t \in Topics :
        /\ Len(queues[t]) = 2
        /\ queues[t][1].priority = "none" /\ queues[t][1].id = 2
        /\ queues[t][2].priority = "normal"
        /\ \A u \in Topics : dlq[u] = <<>> /\ (u # t => queues[u] = <<>>)

\* An enqueue of m on the full live queue of t diverted m to the DLQ of t.
Diverted(t, m) ==
    /\ queues' = queues
    /\ dlq' = [dlq EXCEPT ![t] = Append(@, m)]
    /\ raised' = raised

\* C2: no live queue ever holds more than maxQueueSize entries, and an
\* enqueue (by publish, or by the catch block of the drain loop) on a topic
\* whose live queue holds maxQueueSize entries leaves the live queues
\* unchanged, appends exactly that message to the topic's DLQ and raises no
\* error.
C2_OverflowToDLQ ==
    /\ [](\A t \in Topics : Len(queues[t]) <= maxQueueSize)
    /\ [][\A t \in Topics :
            Len(queues[t]) >= maxQueueSize =>
                /\ \A p \in PublishPriorities :
                      publish(t, p) =>
                          Diverted(t, [id |-> nextMsgId, type |-> t, priority |-> p])
                /\ \A k \in TickIds :
                      (ticks[k].pc = "awaitPublish" /\ tickTopic(k) = t /\ publishRejected(k))
                          => Diverted(t, ticks[k].msg)]_vars

\* A full live queue next to a DLQ that took a message.
C2_Witness ==
    \E t \in Topics : Len(queues[t]) = maxQueueSize /\ Len(dlq[t]) = 1

\* The places that hold message id: a position of a live queue, a position
\* of a DLQ, or a tick that has dequeued it and not yet seen the outcome of
\* adapter.publish.
C3_Places(id) ==
    {x \in ({"queue"} \X Topics \X (1..maxQueueSize + 1)) :
        x[3] <= Len(queues[x[2]]) /\ queues[x[2]][x[3]].id = id}
    \cup
    {x \in ({"dlq"} \X Topics \X (1..MaxMsgs)) :
        x[3] <= Len(dlq[x[2]]) /\ dlq[x[2]][x[3]].id = id}
    \cup
    {x \in ({"flight"} \X TickIds) :
        ticks[x[2]].pc \in {"awaitDequeue", "awaitPublish"} /\ ticks[x[2]].msg.id = id}

\* C3: every message publish has accepted and whose adapter.publish has not
\* resolved is in exactly one place: one position of one live queue, one
\* position of one DLQ, or in flight in one tick.
C3_ExactlyOnePlace ==
    \A id \in 1..(nextMsgId - 1) :
        id \notin delivered => Cardinality(C3_Places(id)) = 1

\* One message in a DLQ, one in a live queue and one in flight to the adapter.
C3_Witness ==
    \E k \in TickIds, t \in Topics :
        /\ ticks[k].pc = "awaitPublish"
        /\ dlq[t] # <<>>
        /\ queues[t] # <<>>
        /\ nextMsgId = 4
        /\ delivered = {}

\* A tick has called dequeue for topic t in this step and got a message.
Dequeues(k, t) ==
    /\ ticks'[k].pc = "awaitDequeue"
    /\ ticks'[k] # ticks[k]
    /\ ticks'[k].topics[ticks'[k].idx] = t
    /\ ticks'[k].msg # NoMsg

\* C4: the message a tick takes for a topic, and then hands to
\* adapter.publish, has the highest priority value among the messages
\* queued on that topic at dequeue time, and the others stay queued; so of a
\* critical and a low message published before the tick, in either order,
\* the critical one is handed over first and the low one stays queued.
C4_HighestPriorityFirst ==
    [][\A k \in TickIds, t \in Topics :
        Dequeues(k, t) =>
            /\ queues[t] # <<>>
            /\ \A i \in 1..Len(queues[t]) :
                  getPriorityValue(ticks'[k].msg.priority)
                      >= getPriorityValue(queues[t][i].priority)
            /\ \E i \in 1..Len(queues[t]) :
                  /\ queues[t][i] = ticks'[k].msg
                  /\ queues'[t] = SubSeq(queues[t], 1, i - 1)
                                     \o SubSeq(queues[t], i + 1, Len(queues[t]))]_vars

\* Low published first, critical second, no tick before: the tick is handing
\* the critical message to the adapter and the low one is still queued.
C4_Witness ==
    \E k \in TickIds :
        /\ ticks[k].pc = "awaitPublish"
        /\ ticks[k].msg.priority = "critical" /\ ticks[k].msg.id = 2
        /\ nextMsgId = 3 /\ delivered = {}
        /\ Len(ticks[k].rej) = 0 /\ Len(ticks[k].deq) = 1
        /\ Len(queues[tickTopic(k)]) = 1
        /\ queues[tickTopic(k)][1].priority = "low"

\* C5: at most one execution of processQueues is in progress, it runs under
\* the isProcessing flag, and at most one drain timer is alive, over every
\* sequence of connect, disconnect and re-connect.
C5_NoOverlappingTicks ==
    /\ Cardinality({k \in TickIds : ticks[k].pc # "idle"}) <= 1
    /\ \A k \in TickIds : ticks[k].pc # "idle" => isProcessing
    /\ drainTimers <= 1
    /\ processingInterval <=> drainTimers = 1

\* A tick is awaiting the adapter after a connect, a disconnect and a second
\* connect, with the drain timer of the second connect alive.
C5_Witness ==
    /\ metricsTimers = 2
    /\ drainTimers = 1
    /\ isProcessing
    /\ \E k \in TickIds : ticks[k].pc = "awaitPublish"

\* Message id is in a live queue / is being handed to adapter.publish.
InLiveQueue(id) ==
    \E t \in Topics : \E i \in 1..Len(queues[t]) : queues[t][i].id = id

HandedToAdapter(id) ==
    \E k \in TickIds : ticks[k].pc = "awaitPublish" /\ ticks[k].msg.id = id

\* C6: every message accepted into a live queue is eventually handed to
\* adapter.publish, for every topic, while the manager stays connected, ticks
\* keep firing and adapter.publish eventually succeeds.
C6_EventuallyHandedOver ==
    \A id \in MsgIds : InLiveQueue(id) ~> HandedToAdapter(id)

\* C7: no error leaves the timer callback or publish, a tick whose
\* adapter.publish rejected for a topic still visits every remaining topic
\* before processQueues returns, and isProcessing is released once no
\* callback is in progress.
C7_FailureContained ==
    /\ raised = {}
    /\ \A k \in TickIds :
          ticks[k].pc = "awaitProcessQueues" => ticks[k].deq = ticks[k].topics
    /\ (\A k \in TickIds : ticks[k].pc = "idle") => ~isProcessing

\* adapter.publish rejected for the first of two topics and the same tick
\* went on to call adapter.publish for the second.
C7_Witness ==
    \E k \in TickIds :
        /\ ticks[k].pc = "awaitProcessQueues"
        /\ Len(ticks[k].topics) = 2
        /\ ticks[k].rej = <<ticks[k].topics[1]>>
        /\ ticks[k].pub = ticks[k].topics

\* The catch block of tick k handles a rejection for topic t in this step.
Rejects(k, t) ==
    /\ ticks[k].pc = "awaitPublish"
    /\ ticks'[k].pc = "awaitEnqueue"
    /\ tickTopic(k) = t

\* m has been inserted into the live queue of t after every message of equal
\* or higher priority value and before every message of lower value.
BackInPlace(t, m) ==
    \E i \in 1..Len(queues'[t]) :
        /\ queues'[t][i] = m
        /\ queues[t] = SubSeq(queues'[t], 1, i - 1)
                          \o SubSeq(queues'[t], i + 1, Len(queues'[t]))
        /\ \A j \in 1..(i - 1) :
              getPriorityValue(queues'[t][j].priority) >= getPriorityValue(m.priority)
        /\ \A j \in (i + 1)..Len(queues'[t]) :
              getPriorityValue(queues'[t][j].priority) < getPriorityValue(m.priority)

\* C8 as claimed: once the tick has handled the rejection the message is
\* back in its topic's live queue, after every queued message of equal or
\* higher priority and before every lower one, whatever was published while
\* the adapter call was pending.
C8_BackInLiveQueue ==
    [][\A k \in TickIds, t \in Topics :
        Rejects(k, t) => BackInPlace(t, ticks[k].msg)]_vars

\* C8 as amended: that holds when the live queue holds fewer than
\* maxQueueSize entries at that moment; when publish calls made while the
\* adapter call was pending have filled it, the message is appended to the
\* topic's DLQ and the live queue is left as it is.
C8_BackInQueueOrDLQ ==
    [][\A k \in TickIds, t \in Topics :
        Rejects(k, t) =>
            IF Len(queues[t]) < maxQueueSize
            THEN BackInPlace(t, ticks[k].msg) /\ dlq' = dlq
            ELSE Diverted(t, ticks[k].msg)]_vars

\* The rejected message sits behind a message of equal priority value that
\* was published while the adapter call was pending.
C8_Witness ==
    \E k \in TickIds :
        /\ ticks[k].pc = "awaitEnqueue"
        /\ Len(queues[tickTopic(k)]) = 2
        /\ queues[tickTopic(k)][2] = ticks[k].msg
        /\ queues[tickTopic(k)][1].id > ticks[k].msg.id
        /\ queues[tickTopic(k)][1].priority = ticks[k].msg.priority

\* How often topic t occurs in seq.
Count(seq, t) == Cardinality({i \in 1..Len(seq) : seq[i] = t})

\* C9: within one tick, dequeue is called at most once per topic, only for
\* topics of the registry snapshot and in its order, and adapter.publish is
\* called at most once per topic, only for a topic that was dequeued.
C9_OnePerTopicPerTick ==
    \A k \in TickIds :
        /\ Len(ticks[k].deq) <= Len(ticks[k].topics)
        /\ ticks[k].deq = SubSeq(ticks[k].topics, 1, Len(ticks[k].deq))
        /\ \A t \in Topics :
              /\ Count(ticks[k].deq, t) <= 1
              /\ Count(ticks[k].pub, t) <= Count(ticks[k].deq, t)

\* A tick is over, it published one message of a topic without a rejection,
\* and another message is still queued on that topic.
C9_Witness ==
    \E k \in TickIds :
        /\ ticks[k].pc = "awaitProcessQueues"
        /\ ticks[k].rej = <<>>
        /\ ticks[k].pub # <<>>
        /\ queues[ticks[k].pub[1]] # <<>>

samplesOf(m, key) == IF key \in DOMAIN m THEN m[key] ELSE <<>>

\* One sample was recorded in this step, under the key of operation, and
\* every other key of the monitor is as it was.
RecordedUnder(operation) ==
    LET key == metricKey(operation, getType) IN
    /\ DOMAIN metrics' = DOMAIN metrics \cup {key}
    /\ \E latency \in Elapsed :
          metrics'[key] = pushSample(samplesOf(metrics, key), latency)
    /\ \A other \in DOMAIN metrics : other # key => metrics'[other] = metrics[other]

\* C11: a publishImmediate call starts exactly one adapter.publish call, for
\* its topic and its message, when it is made, and none afterwards; no step
\* of the call changes a live queue or a DLQ; when the adapter call resolves
\* exactly one sample is recorded, under 'publish_immediate' and no other
\* key, and no error is raised; when it rejects the error leaves
\* publishImmediate and no sample is recorded.
C11_ImmediateBypassesQueue ==
    [][/\ immediate' # immediate => queues' = queues /\ dlq' = dlq /\ ticks' = ticks
       /\ (nextMsgId' # nextMsgId /\ queues' = queues /\ dlq' = dlq) =>
              /\ immediate \subseteq immediate'
              /\ Cardinality(immediate' \ immediate) = 1
              /\ \A c \in immediate' \ immediate :
                    c.message.id = nextMsgId /\ c.message.type = c.topic
              /\ metrics' = metrics /\ raised' = raised /\ delivered' = delivered
       /\ \A c \in immediate : c \notin immediate' =>
              /\ immediate' = immediate \ {c}
              /\ \/ /\ delivered' = delivered \cup {c.message.id}
                    /\ RecordedUnder("publish_immediate")
                    /\ raised' = raised
                 \/ /\ delivered' = delivered
                    /\ metrics' = metrics
                    /\ raised' = raised \cup {"publishImmediate"}]_vars

\* One publishImmediate resolved and one rejected while a published message
\* waits in a live queue: one sample under the immediate key, none under the
\* drain loop's key.
C11_Witness ==
    /\ DOMAIN metrics = {metricKey("publish_immediate", getType)}
    /\ Len(metrics[metricKey("publish_immediate", getType)]) = 1
    /\ "publishImmediate" \in raised
    /\ immediate = {}
    /\ \E t \in Topics : Len(queues[t]) = 1

\* C12: every message publish or publishImmediate creates carries the topic
\* of the call as its type, whatever options the caller passes: every entry
\* of a topic's live queue and of its DLQ, and every message handed to
\* adapter.publish(topic, message) by publishImmediate, has type = topic.
C12_TypeIsTopic ==
    /\ \A t \in Topics :
          /\ \A i \in 1..Len(queues[t]) : queues[t][i].type = t
          /\ \A i \in 1..Len(dlq[t]) : dlq[t][i].type = t
    /\ \A c \in immediate : c.message.type = c.topic

\* The value the specification reads for a key: the payload's when payload
\* has the key, the metadata's otherwise.
payloadFirst(message, key) ==
    IF key \in DOMAIN message.payload THEN message.payload[key]
    ELSE get(message.metadata, key)

\* No filter value of the call holds a wildcard.
plainFilters(filters) ==
    filters # NoFilters =>
        \A key \in DOMAIN filters :
            ~(filters[key].kind = "string" /\ includesStar(filters[key].str))

\* C18: a call without filters answers true; a call whose filter values hold
\* no wildcard answers true exactly when, for every filter key, the
\* message's value (payload's when payload has the key, metadata's
\* otherwise) equals the filter value, for every payload value including 0,
\* false and ''.
C18_PayloadFirstExact ==
    (filterCall.made /\ plainFilters(filterCall.filters)) =>
        (filterCall.result <=>
            (filterCall.filters # NoFilters =>
                \A key \in DOMAIN filterCall.filters :
                    payloadFirst(filterCall.message, key) = filterCall.filters[key]))

\* chars fits the pattern from its first to its last character, '*' standing
\* for any run of characters and every other character for itself.
RECURSIVE fits(_, _)
fits(pattern, chars) ==
    IF pattern = <<>> THEN chars = <<>>
    ELSE IF Head(pattern) = "*"
    THEN \E k \in 0..Len(chars) : fits(Tail(pattern), SubSeq(chars, k + 1, Len(chars)))
    ELSE chars # <<>> /\ Head(pattern) = Head(chars) /\ fits(Tail(pattern), Tail(chars))

\* Some stretch of chars fits the pattern.
fitsWithin(pattern, chars) ==
    \E i \in 0..Len(chars), j \in 0..Len(chars) :
        i <= j /\ fits(pattern, SubSeq(chars, i + 1, j))

\* The call has one filter, of key "region", whose value holds a wildcard.
wildcardCall ==
    /\ filterCall.made
    /\ filterCall.filters # NoFilters
    /\ DOMAIN filterCall.filters = {"region"}
    /\ filterCall.filters["region"].kind = "string"
    /\ includesStar(filterCall.filters["region"].str)

\* The stringified value matchesFilters tests for key "region".
candidate ==
    or(get(filterCall.message.payload, "region"),
       get(filterCall.message.metadata, "region")).str

sortedStable(list) ==
    \A i, j \in 1..Len(list) :
        i < j =>
            \/ priorityOr0(list[i]) > priorityOr0(list[j])
            \/ /\ priorityOr0(list[i]) = priorityOr0(list[j])
               /\ list[i].id < list[j].id

\* C20: after any sequence of register, registerGlobal and unregister calls
\* every type's handler list and the global handler list are ordered by
\* non-increasing priority, a handler without a priority counting as 0, and
\* handlers of equal priority keep their registration order.
C20_HandlersSortedStable ==
    /\ sortedStable(globalHandlers)
    /\ \A t \in Topics : sortedStable(handlers[t])

\* A type's list after an unregister: a handler without a priority behind a
\* handler of priority 0 registered before it, ahead of a negative one, and
\* behind a later handler of priority 10.
C20_Witness ==
    \E t \in Topics :
        /\ Len(handlers[t]) = 3
        /\ nextHandlerId = 5
        /\ handlers[t][1].id = 4 /\ priorityOr0(handlers[t][1]) = 10
        /\ handlers[t][2].hasPriority /\ handlers[t][2].priority = 0
        /\ ~handlers[t][3].hasPriority /\ handlers[t][3].id = 3
        /\ globalHandlers = <<>>
        /\ \A u \in Topics : u # t => handlers[u] = <<>>

\* 1 when the registry holds subscription (topic, id), else 0.
held(topic, id) == IF hasTopic(topic) /\ id \in subscriptions[topic] THEN 1 ELSE 0

\* An unsubscribe call answers true exactly when the registry holds
\* (topic, id), which it then holds no more; otherwise it leaves the registry
\* as it is.
UnsubscribeAnswers ==
    \A t \in Topics, id \in SubIds :
        registryUnsubscribeCall(t, id) =>
            /\ registryCalls'.last.result <=> held(t, id) = 1
            /\ ~(hasTopic(t)' /\ id \in subscriptions'[t])
            /\ held(t, id) = 0 => UNCHANGED <<subscriptions, topicSubscribers, topicOrder>>

\* C15 as claimed: unsubscribe(topic, id) returns false and leaves the
\* registry unchanged when (topic, id) is not registered, and over any
\* sequence of subscribe and unsubscribe calls every subscribe call of
\* (topic, id) is answered by exactly one true: the trues returned so far,
\* plus one when (topic, id) is registered, equal the subscribe calls made.
C15_TrueOncePerSubscribe ==
    /\ [](\A x \in Topics \X SubIds :
            registryCalls.trues[x] + held(x[1], x[2]) = registryCalls.subscribes[x])
    /\ [][UnsubscribeAnswers]_vars

\* C15 as amended: the same, counting only the subscribe calls that created
\* an entry; a subscribe call of a (topic, id) that is registered replaces
\* the entry and is answered by no true of its own.
C15_TrueOncePerEntry ==
    /\ [](\A x \in Topics \X SubIds :
            registryCalls.trues[x] + held(x[1], x[2])
                = registryCalls.subscribes[x] - registryCalls.overwrites[x])
    /\ [][UnsubscribeAnswers]_vars

\* Two subscribe calls of one (topic, id), then an unsubscribe that returned
\* true and one that returned false.
C15_Witness ==
    \E x \in Topics \X SubIds :
        /\ registryCalls.subscribes[x] = 2
        /\ registryCalls.trues[x] = 1
        /\ held(x[1], x[2]) = 0
        /\ registryCalls.last = [op |-> "unsubscribe", topic |-> x[1], id |-> x[2],
                                 result |-> FALSE]

\* C16: in every state of the registry a topic is a key of the subscriptions
\* Map (so returned by getAllTopics, once) exactly when it has at least one
\* subscription, and the topic's subscriber-id set equals the key set of its
\* subscription map.
C16_TopicIffSubscribed ==
    /\ \A t \in Topics :
          /\ hasTopic(t) <=> subscriptions[t] # {}
          /\ topicSubscribers[t] = subscriptions[t]
    /\ \A i, j \in 1..Len(getAllTopics) :
          getAllTopics[i] = getAllTopics[j] => i = j

\* The topic subscribed first lost its last subscription and is gone; the
\* topic subscribed second still has two.
C16_Witness ==
    \E t \in Topics :
        /\ getAllTopics = <<t>>
        /\ Cardinality(subscriptions[t]) = 2
        /\ \E u \in Topics \ {t}, id \in SubIds :
              /\ registryCalls.subscribes[<<u, id>>] = 1
              /\ registryCalls.last = [op |-> "unsubscribe", topic |-> u, id |-> id,
                                       result |-> TRUE]


\* The events of a delivery's log, and the deliveries that have begun.
events(d) == {deliveries[d].log[i] : i \in 1..Len(deliveries[d].log)}
begun == {d \in DeliveryIds : deliveries[d].pc # "none"}
matched(d) ==
    /\ ~filtersThrow(wrappers[deliveries[d].sub].filters)
    /\ matchesFilters(deliveries[d].message, wrappers[deliveries[d].sub].filters)

\* C13: for every message delivered to a wrapped callback: when the message
\* does not match the subscription's filters neither the pipeline nor the
\* subscriber's callback runs; when it matches, the pipeline is run first and
\* the callback is invoked only after the pipeline completed without failure,
\* and then it is invoked; a pipeline failure (a failed validation among
\* them) means the callback is not invoked.
C13_FilterPipelineCallback ==
    \A d \in begun :
        LET log == deliveries[d].log IN
        /\ ~matched(d) => "handle" \notin events(d) /\ "callback" \notin events(d)
        /\ matched(d) => Len(log) >= 2 /\ log[2] = "handle"
        /\ \A i \in 1..Len(log) :
              log[i] = "callback" =>
                  /\ i > 2
                  /\ log[i - 1] = "handled"
                  /\ \E j \in 1..(i - 2) : log[j] = "handle"
        /\ "handleFailed" \in events(d) => "callback" \notin events(d)
        /\ (ValidationHandler \in deliveries[d].handlers
               /\ validationFails(deliveries[d].message)) => "callback" \notin events(d)
        /\ (deliveries[d].pc = "settled" /\ matched(d))
               => ("callback" \in events(d)) # ("handleFailed" \in events(d))

\* C13 witness: one delivery was filtered out, or failed validation, and
\* another one reached the subscriber's callback.
C13_Witness ==
    \E d1, d2 \in begun :
        /\ "handleFailed" \in events(d1)
        /\ ValidationHandler \in deliveries[d1].handlers
        /\ "callback" \in events(d2)
        /\ ValidationHandler \in deliveries[d2].handlers

\* C13 witness of the filter's side: a message that does not match was dropped.
C13_WitnessSkipped ==
    \E d \in begun : deliveries[d].log = <<"filterSkipped", "latency">>


\* C14: every failure raised during an inbound delivery, by the filter
\* check, the pipeline or the subscriber's callback, a callback failing
\* asynchronously included, is caught inside the wrapper: each failure in a
\* delivery's log is followed by its catch and no rejection is left unhandled.
C14_FailuresCaughtInWrapper ==
    /\ "unhandledRejection" \notin raised
    /\ \A d \in begun :
          \A i \in 1..Len(deliveries[d].log) :
              deliveries[d].log[i] \in {"filterThrew", "handleFailed"}
                  => /\ i < Len(deliveries[d].log)
                     /\ deliveries[d].log[i + 1] = "caught"

\* The handles the adapter holds for a subscription of the manager.
handlesOf(id) == {h \in DOMAIN adapterSubscriptions : adapterSubscriptions[h].sub = id}

\* The registry holds subscription (topic, id).
inRegistry(topic, id) == held(topic, id) = 1

\* C17: manager.unsubscribe(topic, id) returns true and calls
\* adapter.unsubscribe exactly when the registry held (topic, id), otherwise
\* it returns false and does not call the adapter; the identifier passed is
\* the handle adapter.subscribe returned for the subscription, and the
\* adapter releases it.
C17_UnsubscribeReleasesHandle ==
    [][\A t \in Topics, id \in SubIds :
          managerUnsubscribe(t, id) =>
              LET calls == adapterUnsubscribes' \ adapterUnsubscribes IN
              /\ lastUnsubscribe'.result = inRegistry(t, id)
              /\ inRegistry(t, id) =>
                    /\ \E call \in calls : call.sub = id
                    /\ \A call \in calls, h \in handlesOf(id) :
                          /\ call.arg = h
                          /\ h \notin DOMAIN adapterSubscriptions'
              /\ ~inRegistry(t, id) =>
                    /\ calls = {}
                    /\ adapterSubscriptions' = adapterSubscriptions]_vars

\* The first half of C17 alone: the result and the call of the adapter
\* follow what the registry held.
UnsubscribeFollowsRegistry ==
    [][\A t \in Topics, id \in SubIds :
          managerUnsubscribe(t, id) =>
              /\ lastUnsubscribe'.result = inRegistry(t, id)
              /\ inRegistry(t, id) <=> adapterUnsubscribes' # adapterUnsubscribes]_vars


\* Places of a dispatch's log that hold an event of a kind, and the places
\* ahead of a place.
places(ev) == {i \in 1..Len(dispatch.log) : dispatch.log[i].ev = ev}
ahead(i) == 1..(i - 1)

\* The order of the chain: the k-th middleware function to start is the
\* k-th registered, it starts after the one registered ahead of it (handle
\* itself for the first) has called next, and the terminal step starts
\* after the last registered one has called next.
chainInOrder ==
    /\ \A i \in places("middleware") :
          /\ dispatch.log[i].id = 1 + Cardinality(places("middleware") \cap ahead(i))
          /\ \E j \in ahead(i) : dispatch.log[j] = event("next", dispatch.log[i].id - 1)
    /\ \A i \in places("terminal") :
          \E j \in ahead(i) : dispatch.log[j] = event("next", Len(middleware))

\* C21: handle(message) invokes the middleware in registration order, each
\* middleware starting only when the one ahead of it has called next, and
\* the terminal fan-out starting only after the last registered middleware
\* has called next.
C21_MiddlewareInOrder == chainInOrder

\* No registered middleware function calls next a second time.
nextOnce == \A i \in 1..Len(middleware) : middleware[i].kind # "twice"

\* The order of the chain holds for middleware that call next at most once.
MiddlewareInOrderWhenNextOnce == nextOnce => chainInOrder

\* A dispatch through three such middleware functions reached the terminal step.
MiddlewareInOrderWitness ==
    /\ nextOnce
    /\ Len(middleware) = 3
    /\ places("terminal") # {}


\* The handle calls of the terminal step that begins at place i of the log:
\* the run of start events behind it.
startsOf(i) ==
    {j \in (i + 1)..Len(dispatch.log) :
        \A k \in (i + 1)..j : dispatch.log[k].ev = "start"}
\* The handler object of an id, and the global handler objects.
handlerOf(id) == CHOOSE h \in registered : h.id = id
globals == {globalHandlers[i] : i \in 1..Len(globalHandlers)}
typed(type) == {handlers[type][i] : i \in 1..Len(handlers[type])}
\* The terminal step at place i was cut short by a handler that threw.
cutShort(i) == \E j \in places("threw") : j = i + Cardinality(startsOf(i)) + 1

\* C22: in every dispatch that reaches the terminal step the handlers
\* started are handlers of the global list or of message.type's list whose
\* canHandle is true, started global ones first, each list by
\* non-increasing priority, all of them unless one threw; the order in
\* which they settle plays no part.
C22_StartOrder ==
    \A i \in places("terminal") :
        /\ \A j \in startsOf(i) :
              LET h == handlerOf(dispatch.log[j].id) IN
              /\ h \in globals \cup typed(dispatch.type)
              /\ canHandle(h, dispatch.type)
        /\ \A a, b \in startsOf(i) :
              LET ha == handlerOf(dispatch.log[a].id)
                  hb == handlerOf(dispatch.log[b].id)
              IN a < b =>
                    /\ ha # hb
                    /\ hb \in globals => ha \in globals
                    /\ (ha \in globals <=> hb \in globals)
                          => priorityOr0(ha) >= priorityOr0(hb)
        /\ ~cutShort(i) =>
              \A h \in globals \cup typed(dispatch.type) :
                  canHandle(h, dispatch.type)
                      => \E j \in startsOf(i) : dispatch.log[j].id = h.id

\* C22 witness: a global handler of priority 1 was started ahead of a
\* handler of the type of priority 10, which settled first, and a handler
\* whose canHandle is false was left out.
C22_Witness ==
    \E i \in places("terminal") : \E a, b \in startsOf(i) :
        LET ha == handlerOf(dispatch.log[a].id)
            hb == handlerOf(dispatch.log[b].id)
        IN /\ a < b
           /\ ha \in globals /\ ha.priority = 1
           /\ hb \in typed(dispatch.type) /\ hb.priority = 10
           /\ \E x, y \in places("resolved") :
                 /\ x < y
                 /\ dispatch.log[x].id = hb.id
                 /\ dispatch.log[y].id = ha.id

\* C22 witness of the restriction: a terminal step left out a registered
\* handler of the type whose canHandle is false.
C22_WitnessRestricted ==
    \E i \in places("terminal") :
        /\ startsOf(i) # {}
        /\ \E h \in typed(dispatch.type) : ~canHandle(h, dispatch.type)


\* The failures of a dispatch: a middleware function threw, a handler threw
\* out of handle, a handler's promise rejected.
failures == places("failed") \cup places("threw") \cup places("rejected")

\* A failure makes handle fail, every handler of the combined list whose
\* canHandle is true is started exactly once by a dispatch that reaches the
\* terminal step, and handle returns only when all of them have settled or
\* one has failed.
siblingsAllStarted ==
    /\ failures # {} => dispatch.pc = "rejected"
    /\ places("terminal") # {} =>
          \A h \in globals \cup typed(dispatch.type) :
              canHandle(h, dispatch.type) =>
                  Cardinality({j \in places("start") : dispatch.log[j].id = h.id}) = 1
    /\ dispatch.pc = "resolved" => dispatch.pending = {}
    /\ dispatch.pc = "rejected" => failures # {}

\* C23: a failure of a middleware or of a handler makes handle fail with
\* it and does not cancel the siblings: every handler whose canHandle is
\* true still has its handle started exactly once, and handle does not
\* return before all have completed or one has failed.
C23_FailureKeepsSiblings == siblingsAllStarted

\* The same for middleware that call next at most once.
FailureKeepsSiblingsWhenNextOnce == nextOnce => siblingsAllStarted

\* What remains of it: a failure makes handle fail, and handle returns only
\* when the handlers it started have settled or one has failed.
FailurePropagates ==
    /\ failures # {} => dispatch.pc = "rejected"
    /\ dispatch.pc = "resolved" => dispatch.pending = {}
    /\ dispatch.pc = "rejected" => failures # {}


\* The failed protected calls at the end of a history.
RECURSIVE trailingFailures(_)
trailingFailures(history) ==
    IF history = <<>> \/ history[Len(history)] # "failure" THEN 0
    ELSE 1 + trailingFailures(SubSeq(history, 1, Len(history) - 1))

\* A step is a call of execute; a step is the settling of the operation,
\* with an outcome.
called == Len(breaker'.history) = Len(breaker.history) + 1
settledAs(outcome) ==
    /\ breaker.inFlight /\ ~breaker'.inFlight
    /\ breaker'.history[Len(breaker'.history)] = outcome

\* C24: the breaker starts CLOSED; from CLOSED it becomes OPEN exactly when
\* the count of consecutive failed protected calls reaches failureThreshold,
\* a success in CLOSED resets the count and keeps it CLOSED; while OPEN and
\* before recoveryTimeout has elapsed every execute fails at once with the
\* circuit-open error and the operation is not invoked.
C24_OpensAtThreshold ==
    /\ [](breaker.state = "CLOSED" =>
             /\ trailingFailures(breaker.history) < failureThreshold
             /\ breaker.failures = trailingFailures(
                    SelectSeq(breaker.history, LAMBDA r : r # "invoked")))
    /\ [][/\ breaker.state = "none" /\ breaker'.state # "none" => breaker'.state = "CLOSED"
          /\ breaker.state = "CLOSED" =>
                /\ breaker'.state = "OPEN" <=>
                      /\ settledAs("failure")
                      /\ trailingFailures(breaker'.history) = failureThreshold
                /\ breaker'.state \in {"CLOSED", "OPEN"}
                /\ settledAs("success") => breaker'.failures = 0
          /\ (breaker.state = "OPEN" /\ ~timedOut(breaker) /\ called) =>
                /\ breaker'.history[Len(breaker'.history)] = "circuit-open"
                /\ ~breaker'.inFlight
                /\ breaker'.state = "OPEN"]_vars

\* C24 witness: a failure, a success and two failures opened the breaker
\* at the second of them, and a call made then was refused.
C24_Witness ==
    /\ breaker.state = "OPEN"
    /\ Len(breaker.history) >= 4
    /\ SubSeq(breaker.history, 1, 4) = <<"failure", "success", "failure", "failure">>

\* C24 witness of the refusal: OPEN, a call refused within the timeout.
C24_WitnessRefused ==
    /\ breaker.state = "OPEN"
    /\ breaker.history # <<>>
    /\ breaker.history[Len(breaker.history)] = "circuit-open"

\* C25: a call made once recoveryTimeout has elapsed since OPEN was entered
\* moves the breaker to HALF_OPEN and invokes the operation; from
\* HALF_OPEN a success moves it to CLOSED, a failure back to OPEN with the
\* recovery timer restarted; monitoringPeriod is read by none of it.
C25_Recovery ==
    [][/\ (breaker.state = "OPEN" /\ timedOut(breaker) /\ called) =>
             /\ breaker'.state = "HALF_OPEN"
             /\ breaker'.inFlight
       /\ breaker.state = "HALF_OPEN" =>
             /\ settledAs("success") => breaker'.state = "CLOSED"
             /\ settledAs("failure") =>
                   /\ breaker'.state = "OPEN"
                   /\ breaker'.openedAt = breaker.now
                   /\ ~timedOut(breaker')
             /\ ~(settledAs("success") \/ settledAs("failure")) =>
                   breaker'.state = "HALF_OPEN"
       /\ breaker.state # "none" =>
             breaker'.monitoringPeriod = breaker.monitoringPeriod]_vars

\* C25 witness: a breaker whose monitoringPeriod exceeds recoveryTimeout
\* went from OPEN through HALF_OPEN back to OPEN, later than it first opened.
C25_Witness ==
    /\ breaker.state = "OPEN"
    /\ breaker.monitoringPeriod > recoveryTimeout
    /\ breaker.openedAt >= recoveryTimeout
    /\ Len(breaker.history) > failureThreshold
    /\ breaker.history[Len(breaker.history)] = "failure"

\* C25 witness of the recovery: HALF_OPEN became CLOSED on a success.
C25_WitnessClosed ==
    /\ breaker.state = "CLOSED"
    /\ Len(breaker.history) > failureThreshold
    /\ breaker.history[Len(breaker.history)] = "success"
    /\ breaker.history[Len(breaker.history) - 1] = "failure"
    /\ breaker.openedAt >= 0 /\ breaker.now >= recoveryTimeout


C27_ExhaustionSurfaced ==
    [][\A id \in RetryIds :
          (retryHandle(id) /\ currentRetries(id) >= maxRetries) =>
              /\ id \notin DOMAIN retryCount'
              /\ retryPending' = retryPending
              /\ lastRetry'.id = id /\ ~lastRetry'.attempted
              /\ lastRetry'.result = "rejected"]_vars

\* What holds of the abandoned message: the entry is removed and
\* processMessage is not called.
ExhaustionDropsEntry ==
    [][\A id \in RetryIds :
          (retryHandle(id) /\ currentRetries(id) >= maxRetries) =>
              /\ id \notin DOMAIN retryCount'
              /\ retryPending' = retryPending
              /\ lastRetry'.id = id /\ ~lastRetry'.attempted]_vars

\* The window new is the window old with the sample x arrived: x is its
\* last sample, before it come the latest samples of old in their order,
\* and only what exceeds maxSamples is gone.
recentInOrder(old, x, new) ==
    /\ Len(new) = IF Len(old) + 1 > maxSamples THEN maxSamples ELSE Len(old) + 1
    /\ new[Len(new)] = x
    /\ \A i \in 1..(Len(new) - 1) : new[i] = old[Len(old) - (Len(new) - 1) + i]

\* The reported count is the length of the window and the reported
\* statistics are in order.
statsInOrder(samples, stats) ==
    /\ stats.count = Len(samples)
    /\ stats.min <= stats.p95
    /\ stats.p95 <= stats.p99
    /\ stats.p99 <= stats.max

\* C28: the window of each (broker, operation) never holds more than
\* maxSamples samples; a recorded sample becomes the last of its window, in
\* front of it stay the most recent earlier samples in arrival order (the
\* oldest is evicted first) and no other window changes; getMetrics reports
\* for every window that is not empty a count equal to its length, with
\* min <= p95 <= p99 <= max.
C28_WindowAndMetrics ==
    /\ [](\A key \in DOMAIN metrics :
            /\ Len(metrics[key]) <= maxSamples
            /\ Len(metrics[key]) > 0 =>
                  /\ key \in DOMAIN getMetrics
                  /\ statsInOrder(metrics[key], getMetrics[key]))
    /\ [](statsCall.made => statsInOrder(statsCall.samples, statsCall.result))
    /\ [][\A o \in MonitorOperations, x \in Samples, b \in MonitorBrokers :
            recordLatencyCall(o, x, b) =>
              LET key == metricKey(o, b) IN
              /\ DOMAIN metrics' = DOMAIN metrics \cup {key}
              /\ recentInOrder(samplesOf(metrics, key), x, metrics'[key])
              /\ \A other \in DOMAIN metrics :
                    other # key => metrics'[other] = metrics[other]]_vars

\* Both windows are full with samples that differ, and statistics were
\* computed over a window whose p95 lies below its p99.
C28_Witness ==
    /\ \A b \in MonitorBrokers :
          LET key == metricKey("publish", b) IN
          /\ key \in DOMAIN metrics
          /\ Len(metrics[key]) = maxSamples
          /\ metrics[key][1] # metrics[key][maxSamples]
    /\ statsCall.made
    /\ statsCall.result.min < statsCall.result.p95
    /\ statsCall.result.p95 < statsCall.result.p99

\* The nearest rank of a percentile in a window of n samples: the least k
\* with k / n >= percentile / 100.
isRank(k, n, percentile) == k * 100 >= n * percentile /\ (k - 1) * 100 < n * percentile

\* r is the sample at the nearest rank k of the window in ascending order:
\* fewer than k samples lie below r and at least k do not lie above it.
nearestRank(samples, percentile, r) ==
    \E k \in 1..Len(samples) :
        /\ isRank(k, Len(samples), percentile)
        /\ Cardinality({i \in 1..Len(samples) : samples[i] < r}) < k
        /\ Cardinality({i \in 1..Len(samples) : samples[i] <= r}) >= k

\* C29: the reported p95 and p99 of a window are its nearest-rank
\* percentiles, the element at index ceil(n * p / 100) - 1 of the window in
\* ascending order, whatever the sample at that place, 0 included; the p95
\* of [10, 20, 30, 40, 50] is 50.
C29_NearestRank ==
    /\ statsCall.made =>
          /\ nearestRank(statsCall.samples, 95, statsCall.result.p95)
          /\ nearestRank(statsCall.samples, 99, statsCall.result.p99)
          /\ statsCall.samples = ExampleWindow => statsCall.result.p95 = 50
    /\ \A key \in DOMAIN getMetrics :
          /\ nearestRank(metrics[key], 95, getMetrics[key].p95)
          /\ nearestRank(metrics[key], 99, getMetrics[key].p99)

\* The percentiles of the documented example were computed.
C29_Witness == statsCall.made /\ statsCall.samples = ExampleWindow

\* Percentiles were computed whose sample is 0, and a recorded window
\* reports a p95 of 0.
C29_WitnessZero ==
    /\ statsCall.made
    /\ statsCall.result.p99 = 0
    /\ \E key \in DOMAIN getMetrics : getMetrics[key].p95 = 0

\* Percentiles whose ranks differ were computed over an unsorted window.
C29_WitnessUnsorted ==
    /\ statsCall.made
    /\ statsCall.result.p95 < statsCall.result.p99
    /\ \E i \in 1..(Len(statsCall.samples) - 1) :
          statsCall.samples[i] > statsCall.samples[i + 1]

\* A timer callback begins a drain tick in this step: it was idle and now
\* runs processQueues.
tickBegins == \E k \in TickIds : ticks[k].pc = "idle" /\ ticks'[k].pc # "idle"

halted == lastLifecycle \in {"disconnect", "disconnectDuringConnect"}

\* C30: once disconnect() has been called no drain tick begins and no
\* message is dequeued by a tick that begins, until connect() is called
\* again; the disconnect() call leaves a tick in flight as it is.
C30_NoTickAfterDisconnect ==
    /\ [][tickBegins => ~halted]_vars
    /\ [][disconnectCalled => ticks' = ticks]_vars

\* The same with a connect() awaiting the adapter at the time of the
\* disconnect() left aside: no tick begins after a disconnect() that found
\* no connect() pending, and no disconnect() touches a tick in flight.
NoTickAfterQuietDisconnect ==
    /\ [][tickBegins => lastLifecycle # "disconnect"]_vars
    /\ [][disconnectCalled => ticks' = ticks]_vars

\* disconnect() was called, no connect() since, the timer is cleared and a
\* tick is still awaiting adapter.publish.
TickInFlightAfterDisconnect ==
    /\ lastLifecycle = "disconnect"
    /\ ~processingInterval
    /\ \E k \in TickIds : ticks[k].pc = "awaitPublish"

\* A tick that was in flight at a disconnect() has gone on to the end of
\* processQueues, having handed its message to the adapter.
TickCompletedAfterDisconnect ==
    /\ lastLifecycle = "disconnect"
    /\ \E k \in TickIds : ticks[k].pc = "awaitProcessQueues" /\ ticks[k].pub # <<>>

\* C31: once manager.unsubscribe(topic, id) has returned true, the callback
\* subscribed under id is not invoked for a message the broker delivers
\* afterwards.
C31_NoCallbackAfterUnsubscribe ==
    \A d \in begun :
        deliveries[d].message.metadata.afterUnsubscribe => "callback" \notin events(d)

\* manager.unsubscribe answered true for an id and the adapter was called.
UnsubscribeReturnedTrue ==
    /\ lastUnsubscribe.result
    /\ unsubscribed(lastUnsubscribe.id)
    /\ ~inRegistry(lastUnsubscribe.topic, lastUnsubscribe.id)

\* After a manager.unsubscribe that returned true the adapter still holds
\* the handle and the listener of the subscription.
ListenerOutlivesUnsubscribe ==
    \A id \in SubIds :
        unsubscribed(id) =>
            /\ handlesOf(id) # {}
            /\ \E l \in listeners : l.sub = id

\* A tick calls adapter.publish in this step.
publishIssued ==
    \E k \in TickIds : ticks'[k].pc = "awaitPublish" /\ ticks'[k].pub # ticks[k].pub

\* C32: once disconnect() has been called the drain loop makes no
\* adapter.publish call until connect() is called again: a tick in flight at
\* the disconnect() does not publish the messages of its remaining topics.
C32_NoPublishAfterDisconnect == [][publishIssued => ~halted]_vars

\* The same for a disconnect() that found no connect() pending, after which
\* no tick begins: the calls it forbids are those of a tick in flight.
NoPublishAfterQuietDisconnect == [][publishIssued => lastLifecycle # "disconnect"]_vars

\* C33: after disconnect(), and until connect() is called again, neither
\* the drain timer nor the metrics polling timer is alive; over every
\* sequence of connect() and disconnect() calls at most one metrics polling
\* timer exists.
C33_DisconnectStopsTimers ==
    /\ halted => drainTimers = 0 /\ metricsTimers = 0
    /\ metricsTimers <= 1

\* What disconnect() does stop: after a disconnect() that found no
\* connect() pending no drain timer is alive.
QuietDisconnectStopsDrainTimer == lastLifecycle = "disconnect" => drainTimers = 0

\* The polling timers only ever grow in number: no step removes one.
MetricsTimersNeverCleared == [][metricsTimers' >= metricsTimers]_vars

\* Topics the drain loop visits.
knownTopics == {getAllTopics[i] : i \in 1..Len(getAllTopics)}

\* C34: when adapter.subscribe fails, manager.subscribe fails with it and
\* leaves no subscription of the failed call in the registry; the topic is
\* a known topic afterwards only if another subscription holds it.
C34_FailedSubscribeLeavesNoTrace ==
    [][\A id \in SubIds :
          adapterSubscribeRejected(id) =>
              LET topic == wrappers[id].topic IN
              /\ "subscribe" \in raised'
              /\ ~inRegistry(topic, id)'
              /\ topic \in knownTopics' =>
                    \E other \in SubIds \ {id} : inRegistry(topic, other)']_vars

\* The failure does reach the caller of manager.subscribe.
FailedSubscribePropagates ==
    [][\A id \in SubIds : adapterSubscribeRejected(id) => "subscribe" \in raised']_vars

\* A subscription whose adapter.subscribe failed is registered and is the
\* only one of its topic, which the drain loop visits.
FailedSubscribeStaysRegistered ==
    \E id \in DOMAIN wrappers :
        /\ id \notin subscribing
        /\ handlesOf(id) = {}
        /\ "subscribe" \in raised
        /\ subscriptions[wrappers[id].topic] = {id}
        /\ wrappers[id].topic \in knownTopics

\* Middleware functions that were started and return without calling next.
stopped ==
    {dispatch.log[i].id : i \in {j \in places("middleware") :
                                     middleware[dispatch.log[j].id].kind = "stop"}}

\* Once a middleware function that does not call next has been started, no
\* function registered behind it and no handler is started, and handle
\* does not fail.
stopHalts ==
    \A k \in stopped :
        /\ \A i \in places("middleware") : dispatch.log[i].id <= k
        /\ places("terminal") = {}
        /\ places("start") = {}
        /\ dispatch.pc # "rejected"

\* C35: a middleware that returns without calling next stops the dispatch:
\* no later middleware and no handler runs, and handle(message) completes
\* without failure.
C35_StopHaltsDispatch == stopHalts

\* The same for middleware that call next at most once.
StopHaltsDispatchWhenNextOnce == nextOnce => stopHalts

\* With handlers registered for the type and a middleware behind it, a
\* middleware that does not call next was started behind one that does,
\* and handle has resolved.
StopHaltsWitness ==
    /\ nextOnce
    /\ stopped = {2}
    /\ Len(middleware) = 3
    /\ selected(dispatch.type) # <<>>
    /\ dispatch.pc = "resolved"

\* C36: with the common middleware installed a message whose id is
\* remembered is dropped: neither the handlers nor the subscriber's
\* callback run for it.
C36_DuplicateDropped ==
    \A d \in begun :
        "duplicate" \in events(d) =>
            /\ deliveries[d].handlers = {}
            /\ "terminal" \notin events(d)
            /\ "callback" \notin events(d)

\* The handlers do not run for a duplicate.
DuplicateSkipsHandlers ==
    \A d \in begun :
        "duplicate" \in events(d) =>
            /\ deliveries[d].handlers = {}
            /\ "terminal" \notin events(d)

\* A message was delivered twice with a handler registered for its type:
\* the handler ran for the first delivery, and for the second it did not
\* run while the subscriber's callback did.
DuplicateReachesCallback ==
    \E d \in begun :
        /\ "duplicate" \in events(d)
        /\ "callback" \in events(d)
        /\ handlers[deliveries[d].message.type] # <<>>
        /\ \E first \in begun :
              /\ first # d
              /\ deliveries[first].message.id = deliveries[d].message.id
              /\ deliveries[first].handlers # {}

\* How often the log of the dispatch holds an event.
occurrences(ev, id) == Cardinality({i \in places(ev) : dispatch.log[i].id = id})

\* No middleware function is started twice by one handle call.
MiddlewareAtMostOnce ==
    \A i \in 1..Len(middleware) : occurrences("middleware", middleware[i].id) <= 1

\* C37: within one handle(message) call each handler is invoked at most
\* once and each middleware at most once, whatever the middleware do with
\* next, a middleware that calls next more than once included.
C37_AtMostOnce ==
    /\ MiddlewareAtMostOnce
    /\ \A h \in registered : occurrences("start", h.id) <= 1

\* Handlers are invoked at most once when no middleware calls next twice.
HandlersAtMostOnceWhenNextOnce ==
    nextOnce => \A h \in registered : occurrences("start", h.id) <= 1

\* A handler was started twice by one handle call, which resolved.
HandlerStartedTwice ==
    /\ dispatch.pc = "resolved"
    /\ \E h \in registered : occurrences("start", h.id) = 2

\* The handlers and the middleware that were registered when the dispatch
\* started: those no call noted in its log has registered.
handlersAtStart == {h \in registered : occurrences("registered", h.id) = 0}
middlewareAtStart ==
    {i \in 1..Len(middleware) : occurrences("added", middleware[i].id) = 0}

\* A registration call was made while the dispatch was in flight.
registeredInFlight == places("registered") \cup places("added") # {}

\* Nothing registered at the start of the dispatch is run twice or
\* skipped: a middleware is started at most once, and only with every
\* middleware ahead of it started; a terminal step is reached only
\* through all of them; a dispatch that reached the terminal step has
\* started each handler whose canHandle is true once.  The handler lists
\* are sorted by non-increasing priority.
registrationSafe ==
    /\ \A i \in middlewareAtStart :
          /\ occurrences("middleware", i) <= 1
          /\ occurrences("middleware", i) = 1 =>
                \A j \in 1..(i - 1) : occurrences("middleware", j) = 1
          /\ places("terminal") # {} => occurrences("middleware", i) = 1
    /\ \A h \in handlersAtStart :
          /\ occurrences("start", h.id) <= 1
          /\ places("terminal") # {} /\ canHandle(h, dispatch.type)
                /\ h \in globals \cup typed(dispatch.type)
                => occurrences("start", h.id) = 1
    /\ sortedStable(globalHandlers)
    /\ \A t \in Topics : sortedStable(handlers[t])

\* C38: register, registerGlobal and addMiddleware called while a
\* handle(message) dispatch is in flight are safe: the dispatch neither
\* skips nor runs twice a middleware or a handler that was registered when
\* it started, and the handler lists stay sorted by non-increasing
\* priority.
C38_RegistrationInFlightSafe == registeredInFlight => registrationSafe

\* The same for dispatches in which no middleware calls next twice and no
\* handler throws ahead of returning its promise.
RegistrationSafeWhenOrderly ==
    registeredInFlight /\ nextOnce /\ places("threw") = {} => registrationSafe

\* A handler and a middleware were registered while the dispatch was in
\* flight ahead of the terminal step, which started the handler registered
\* before them behind the one registered late, and handle resolved.
RegistrationInFlightWitness ==
    /\ nextOnce
    /\ dispatch.pc = "resolved"
    /\ handlersAtStart # {}
    /\ \E r \in places("registered"), a \in places("added"), t \in places("terminal") :
          /\ r < t
          /\ a < t
          /\ \E x, y \in startsOf(t) :
                /\ x < y
                /\ dispatch.log[x].id = dispatch.log[r].id
                /\ handlerOf(dispatch.log[y].id) \in handlersAtStart

\* The last handle call to return abandoned message id.
abandoned(id) == lastRetry.call > 0 /\ lastRetry.id = id /\ ~lastRetry.attempted

\* A handle call for id calls processMessage in this step.
attempts(id) == retryHandle(id) /\ retryPending' # retryPending

\* Processing attempts of id in evidence: those awaited and those whose
\* timer is still set.
attemptsSeen(id) ==
    Cardinality({pending \in retryPending : pending.id = id})
        + Cardinality({timer \in retryTimers : timer.id = id})

\* C39: exhaustion is final: once a message id has been abandoned, the next
\* handle call for it makes no processing attempt.
C39_ExhaustionFinal ==
    [][\A id \in RetryIds : abandoned(id) => ~attempts(id)]_vars

\* No id is attempted more than maxRetries times over a sequence of handle
\* calls.
AttemptsBounded ==
    \A id \in RetryIds : attemptsSeen(id) <= maxRetries

\* After the abandonment the counter of the id is gone, so that the next
\* call reads 0.
AbandonmentResetsCounter ==
    \A id \in RetryIds : abandoned(id) /\ retryPending = {} => currentRetries(id) = 0

\* A message was abandoned with the timers of its maxRetries failed
\* attempts still set.
AbandonedWitness ==
    \E id \in RetryIds : abandoned(id) /\ attemptsSeen(id) = maxRetries

\* The handle calls whose processMessage is rejected in this step.
rejectedNow == retryPending \ retryPending'

\* C40: no increment is lost under overlapping handle calls: each failed
\* attempt leaves the counter of its id one above what it was when the
\* attempt failed.
C40_NoLostIncrement ==
    [][\A pending \in rejectedNow :
          retryCount'[pending.id] = currentRetries(pending.id) + 1]_vars

\* A failed attempt of a call that overlapped no other call of its id is
\* counted.
IncrementKeptWithoutOverlap ==
    [][\A pending \in rejectedNow :
          pending.currentRetries = currentRetries(pending.id)
              => retryCount'[pending.id] = currentRetries(pending.id) + 1]_vars

\* Two attempts of one id have failed and the counter records one.
IncrementLost ==
    \E id \in RetryIds :
        /\ retryPending = {}
        /\ Cardinality({timer \in retryTimers : timer.id = id}) = 2
        /\ currentRetries(id) = 1
        /\ lastRetry.attempted

====
